---- MODULE Spec2Model ----
(***************************************************************************)
(* Verification model of the llamastack-performance locust benchmarks:     *)
(*   - the load shapes (shapes/steady.py, spike.py, realistic.py,          *)
(*     custom.py): tick(elapsed) -> (users, spawn_rate) | None             *)
(*   - the time-series sampler of hooks/metrics_collector.py and           *)
(*     hooks/mlflow_hooks.py                                               *)
(*   - the metrics exporter (scripts/mlflow_logger.py, and the batched     *)
(*     time-series logging of hooks/mlflow_hooks.py)                       *)
(*   - the response-time and trace statistics (percentiles)                *)
(*   - the trace correlator (scripts/trace_analyzer.py)                    *)
(*   - the listener registration of the two hook modules                   *)
(* Elapsed time is counted in whole seconds.                               *)
(***************************************************************************)
EXTENDS Integers, Sequences, FiniteSets, TLC

VARIABLES
    shape,      \* LOAD_SHAPE: which LoadTestShape class is loaded
    env,        \* os.environ, the variables the shapes read
    self,       \* per run: the shape object's fields after __init__
    pc,         \* per run: "off" | "new" | "ready" | "raised"
    elapsed,    \* per run: get_run_time() at the latest tick
    decision,   \* per run: what the latest tick returned
    calls,      \* per run: tick calls so far: 0, 1, or 2 for "two or more"
    fpc,        \* FollowSpec: "off" | "tick" | "spawn" | "quit" (load generator)
    active,     \* FollowSpec: the load generator's active user count
    hook,       \* the hook module loaded: "metrics_collector" | "mlflow_hooks"
    mlflowOn,   \* mlflow_hooks: ENABLE_MLFLOW is true, a tracking URI is set, mlflow imports
    lifecycle,  \* locust's run: "ready" | "running" | "stopped"
    run_started,        \* _run_started
    sampling_greenlet,  \* _sampling_greenlet: 0 for None, else an index of samplers
    samplers,   \* the greenlets spawned on _sample_loop: [pc, second, got, ticks, killedAt]
    buffer,     \* _timeseries_buffer
    reads,      \* history: per tick body, [g, k, ok, late]: greenlet, its tick number,
                \* read outcome, and whether _on_test_stop was already in kill()
    origin,     \* history: per buffer entry, [g, k]: the tick that appended it
    stopPc,     \* _on_test_stop: "idle" | "killing" (blocked in kill())
    due,        \* the sampler's sleep timer had fired when kill() was called
    handoff,    \* the samples the latest _on_test_stop passed on
    stopped,    \* an _on_test_stop has completed
    results_dir,    \* per export: the result files (or in-process buffers) it reads
    exporter,   \* per export: the locals of the exporting function and its position
    backend,    \* per export: the log_batch calls the tracking server accepted
    clock,      \* the wall clock, in milliseconds
    response_times, \* the values a statistics site is handed, in arrival order
    stats,      \* the percentiles each site reports for response_times
    tempo,      \* the trace correlator's surroundings: timestamp files, trace store
    analyzer,   \* trace_analyzer.main: its locals and its position
    trace_file, \* trace_metrics.json as trace_analyzer wrote it
    modules,    \* per hook module: how many times the process has loaded it
    registered, \* per hook module: its _..._HOOKS_REGISTERED entry of os.environ
    listeners,  \* locust's events: per event, the handlers added, in order
    fired,      \* how many events locust has fired
    handled     \* the handler calls the latest event led to

schedVars == <<shape, env, self, pc, elapsed, decision, calls, fpc, active>>
collVars == <<hook, mlflowOn, lifecycle, run_started, sampling_greenlet, samplers,
              buffer, reads, origin, stopPc, due, handoff, stopped>>
expVars == <<results_dir, exporter, backend, clock>>
statVars == <<response_times, stats>>
traceVars == <<tempo, analyzer, trace_file>>
regVars == <<modules, registered, listeners, fired, handled>>
vars == <<schedVars, collVars, expVars, statVars, traceVars, regVars>>

\* what the actions of each component leave alone
nonSchedVars == <<collVars, expVars, statVars, traceVars, regVars>>
nonCollVars == <<schedVars, expVars, statVars, traceVars, regVars>>
nonExpVars == <<schedVars, collVars, statVars, traceVars, regVars>>
nonStatVars == <<schedVars, collVars, expVars, traceVars, regVars>>
nonTraceVars == <<schedVars, collVars, expVars, statVars, regVars>>
nonRegVars == <<schedVars, collVars, expVars, statVars, traceVars>>

(***************************************************************************)
(* Bounds of the model.                                                    *)
(***************************************************************************)
MaxUsers == 3       \* user counts range over 0..MaxUsers
MaxRate == 2        \* SPAWN_RATE ranges over 1..MaxRate
MaxDur == 2         \* each phase duration ranges over 0..MaxDur
MaxStages == 2      \* CUSTOM_STAGES holds at most MaxStages entries
MaxOver == 2        \* ticks are taken up to MaxOver seconds past the plan's end
MaxGap == 2         \* Spec: consecutive ticks are at most MaxGap seconds apart
PairMax == 2        \* PairSpec: the user count, rate and phase length explored
MaxTicks == 3       \* CollectorSpec: the sampler runs at most MaxTicks tick bodies

Runs == {1, 2}

Max(a, b) == IF a >= b THEN a ELSE b
Min(a, b) == IF a <= b THEN a ELSE b

(***************************************************************************)
(* Python arithmetic used by the shapes.                                   *)
(***************************************************************************)
\* int(n * p) for a non-negative int n and the float literal p = num/den.
\* For the literals of realistic.py (0.10, 0.25, 0.65, 0.85, 0.1, 0.5, 0.3,
\* 0.05) and every n < 2000 the double product truncates to floor(n*num/den).
IntMul(n, num, den) == (n * num) \div den

\* math.ceil(a / b) for ints a > 0, b > 0
CeilDiv(a, b) == (a + b - 1) \div b

(***************************************************************************)
(* Tick results: (users, spawn_rate), None, or an exception.               *)
(***************************************************************************)
Run(u, s) == [kind |-> "run", users |-> u, spawn_rate |-> s]
Stop == [kind |-> "stop", users |-> 0, spawn_rate |-> 0]
Raise == [kind |-> "raise", users |-> 0, spawn_rate |-> 0]
NoDecision == [kind |-> "none", users |-> 0, spawn_rate |-> 0]

(***************************************************************************)
(* The environment variables.  CUSTOM_STAGES is a text: either one that    *)
(* json.loads rejects, or a JSON array of objects; an object is a function *)
(* from the keys it holds to their values.                                 *)
(***************************************************************************)
StageKeys == {"duration", "users", "spawn_rate"}
Garbage == [kind |-> "garbage", items |-> << >>]
ArrayText(items) == [kind |-> "array", items |-> items]

BaseEnv ==
    [USERS |-> 0, SPAWN_RATE |-> 1, RUN_TIME_SECONDS |-> 0,
     SPIKE_BASELINE_USERS |-> 0, SPIKE_PEAK_USERS |-> 0,
     SPIKE_BASELINE_DURATION |-> 0, SPIKE_RAMP_DURATION |-> 0,
     SPIKE_HOLD_DURATION |-> 0, SPIKE_COOLDOWN_DURATION |-> 0,
     CUSTOM_STAGES |-> ArrayText(<< >>)]

\* json.loads(stages_json): the parsed value, or JSONDecodeError
JsonLoads(text) ==
    IF text.kind = "garbage" THEN [ok |-> FALSE, value |-> << >>]
    ELSE [ok |-> TRUE, value |-> text.items]

(***************************************************************************)
(* shapes/steady.py                                                        *)
(***************************************************************************)
SteadyTickStrict(e, run_time_elapsed) ==
    LET users == e.USERS
        spawn_rate == users
        run_time == e.RUN_TIME_SECONDS
    IN  IF run_time_elapsed >= run_time THEN Stop ELSE Run(users, spawn_rate)

\* the stop returned at one elapsed value only
SteadyTickOnce(e, run_time_elapsed) ==
    LET users == e.USERS
        spawn_rate == users
        run_time == e.RUN_TIME_SECONDS
    IN  IF run_time_elapsed = run_time + 1 THEN Stop ELSE Run(users, spawn_rate)

SteadyTick(e, run_time_elapsed) ==
    LET users == e.USERS
        spawn_rate == users
        run_time == e.RUN_TIME_SECONDS
    IN  IF run_time_elapsed > run_time THEN Stop ELSE Run(users, spawn_rate)

(***************************************************************************)
(* shapes/spike.py                                                         *)
(***************************************************************************)
\* the ramp rate rounded down, and no fallback to the base rate
SpikeInitFloor(e) ==
    LET baseline_users == e.SPIKE_BASELINE_USERS
        peak_users == e.SPIKE_PEAK_USERS
        ramp_duration == e.SPIKE_RAMP_DURATION
        users_to_spawn == peak_users - baseline_users
        t_baseline_end == e.SPIKE_BASELINE_DURATION
        t_ramp_end == t_baseline_end + ramp_duration
        t_hold_end == t_ramp_end + e.SPIKE_HOLD_DURATION
        t_cooldown_end == t_hold_end + e.SPIKE_COOLDOWN_DURATION
    IN  [baseline_users |-> baseline_users,
         peak_users |-> peak_users,
         spawn_rate |-> e.SPAWN_RATE,
         ramp_spawn_rate |->
            IF ramp_duration > 0 /\ users_to_spawn > 0
            THEN Max(1, users_to_spawn \div ramp_duration)
            ELSE 1,
         t_baseline_end |-> t_baseline_end,
         t_ramp_end |-> t_ramp_end,
         t_hold_end |-> t_hold_end,
         t_cooldown_end |-> t_cooldown_end]

SpikeInit(e) ==
    LET baseline_users == e.SPIKE_BASELINE_USERS
        peak_users == e.SPIKE_PEAK_USERS
        ramp_duration == e.SPIKE_RAMP_DURATION
        users_to_spawn == peak_users - baseline_users
        t_baseline_end == e.SPIKE_BASELINE_DURATION
        t_ramp_end == t_baseline_end + ramp_duration
        t_hold_end == t_ramp_end + e.SPIKE_HOLD_DURATION
        t_cooldown_end == t_hold_end + e.SPIKE_COOLDOWN_DURATION
    IN  [baseline_users |-> baseline_users,
         peak_users |-> peak_users,
         spawn_rate |-> e.SPAWN_RATE,
         ramp_spawn_rate |->
            IF ramp_duration > 0 /\ users_to_spawn > 0
            THEN Max(1, CeilDiv(users_to_spawn, ramp_duration))
            ELSE e.SPAWN_RATE,
         t_baseline_end |-> t_baseline_end,
         t_ramp_end |-> t_ramp_end,
         t_hold_end |-> t_hold_end,
         t_cooldown_end |-> t_cooldown_end]

\* the comparisons with run_time <= boundary
SpikeTickInclusive(o, run_time) ==
    IF run_time <= o.t_baseline_end THEN Run(o.baseline_users, o.spawn_rate)
    ELSE IF run_time <= o.t_ramp_end THEN Run(o.peak_users, o.ramp_spawn_rate)
    ELSE IF run_time <= o.t_hold_end THEN Run(o.peak_users, o.spawn_rate)
    ELSE IF run_time <= o.t_cooldown_end THEN Run(o.baseline_users, o.spawn_rate)
    ELSE Stop

SpikeTick(o, run_time) ==
    IF run_time < o.t_baseline_end THEN Run(o.baseline_users, o.spawn_rate)
    ELSE IF run_time < o.t_ramp_end THEN Run(o.peak_users, o.ramp_spawn_rate)
    ELSE IF run_time < o.t_hold_end THEN Run(o.peak_users, o.spawn_rate)
    ELSE IF run_time < o.t_cooldown_end THEN Run(o.baseline_users, o.spawn_rate)
    ELSE Stop

\* the plan repeated after its end: the branch of run_time within one cycle
SpikeBranchRepeating(o, run_time) ==
    LET again == IF o.t_cooldown_end > 0 THEN run_time % o.t_cooldown_end ELSE run_time
    IN  IF again < o.t_baseline_end THEN 1
        ELSE IF again < o.t_ramp_end THEN 2
        ELSE IF again < o.t_hold_end THEN 3
        ELSE IF again < o.t_cooldown_end THEN 4
        ELSE 5

\* the branch of tick's if-chain taken at run_time: 1 baseline, 2 ramp,
\* 3 hold, 4 cooldown, 5 the final return None
SpikeBranch(o, run_time) ==
    IF run_time < o.t_baseline_end THEN 1
    ELSE IF run_time < o.t_ramp_end THEN 2
    ELSE IF run_time < o.t_hold_end THEN 3
    ELSE IF run_time < o.t_cooldown_end THEN 4
    ELSE 5

\* what each branch of tick returns
SpikeReturn(o, branch) ==
    CASE branch = 1 -> Run(o.baseline_users, o.spawn_rate)
      [] branch = 2 -> Run(o.peak_users, o.ramp_spawn_rate)
      [] branch = 3 -> Run(o.peak_users, o.spawn_rate)
      [] branch = 4 -> Run(o.baseline_users, o.spawn_rate)
      [] OTHER -> Stop

(***************************************************************************)
(* shapes/realistic.py                                                     *)
(***************************************************************************)
RealisticTickRampFirst(e, run_time) ==
    LET peak_users == e.USERS
        spawn_rate == e.SPAWN_RATE
        total_time == e.RUN_TIME_SECONDS
        t_warmup == IntMul(total_time, 10, 100)
        t_ramp == IntMul(total_time, 15, 100)
        t_peak == IntMul(total_time, 65, 100)
        t_taper == IntMul(total_time, 85, 100)
        t_end == total_time
    IN  IF run_time < t_warmup
            THEN Run(Max(2, IntMul(peak_users, 1, 10)), Max(1, spawn_rate \div 2))
        ELSE IF run_time < t_ramp THEN Run(IntMul(peak_users, 5, 10), spawn_rate)
        ELSE IF run_time < t_peak THEN Run(peak_users, spawn_rate)
        ELSE IF run_time < t_taper THEN Run(IntMul(peak_users, 3, 10), spawn_rate)
        ELSE IF run_time < t_end
            THEN Run(Max(2, IntMul(peak_users, 5, 100)), spawn_rate)
        ELSE Stop

\* the warm-up and cooldown concurrency without the minimum of 2
RealisticTickNoMin(e, run_time) ==
    LET peak_users == e.USERS
        spawn_rate == e.SPAWN_RATE
        total_time == e.RUN_TIME_SECONDS
        t_warmup == IntMul(total_time, 10, 100)
        t_ramp == IntMul(total_time, 25, 100)
        t_peak == IntMul(total_time, 65, 100)
        t_taper == IntMul(total_time, 85, 100)
        t_end == total_time
    IN  IF run_time < t_warmup
            THEN Run(IntMul(peak_users, 1, 10), Max(1, spawn_rate \div 2))
        ELSE IF run_time < t_ramp THEN Run(IntMul(peak_users, 5, 10), spawn_rate)
        ELSE IF run_time < t_peak THEN Run(peak_users, spawn_rate)
        ELSE IF run_time < t_taper THEN Run(IntMul(peak_users, 3, 10), spawn_rate)
        ELSE IF run_time < t_end THEN Run(IntMul(peak_users, 5, 100), spawn_rate)
        ELSE Stop

RealisticTick(e, run_time) ==
    LET peak_users == e.USERS
        spawn_rate == e.SPAWN_RATE
        total_time == e.RUN_TIME_SECONDS
        t_warmup == IntMul(total_time, 10, 100)
        t_ramp == IntMul(total_time, 25, 100)
        t_peak == IntMul(total_time, 65, 100)
        t_taper == IntMul(total_time, 85, 100)
        t_end == total_time
        warmup_users == Max(2, IntMul(peak_users, 1, 10))
        ramp_users == IntMul(peak_users, 5, 10)
        taper_users == IntMul(peak_users, 3, 10)
        cooldown_users == Max(2, IntMul(peak_users, 5, 100))
    IN  IF run_time < t_warmup THEN Run(warmup_users, Max(1, spawn_rate \div 2))
        ELSE IF run_time < t_ramp THEN Run(ramp_users, spawn_rate)
        ELSE IF run_time < t_peak THEN Run(peak_users, spawn_rate)
        ELSE IF run_time < t_taper THEN Run(taper_users, spawn_rate)
        ELSE IF run_time < t_end THEN Run(cooldown_users, spawn_rate)
        ELSE Stop

\* the branch of tick's if-chain taken at run_time: 1 warm-up, 2 ramp,
\* 3 peak, 4 taper, 5 cooldown, 6 the final return None
RealisticBranch(e, run_time) ==
    LET total_time == e.RUN_TIME_SECONDS
        t_warmup == IntMul(total_time, 10, 100)
        t_ramp == IntMul(total_time, 25, 100)
        t_peak == IntMul(total_time, 65, 100)
        t_taper == IntMul(total_time, 85, 100)
        t_end == total_time
    IN  IF run_time < t_warmup THEN 1
        ELSE IF run_time < t_ramp THEN 2
        ELSE IF run_time < t_peak THEN 3
        ELSE IF run_time < t_taper THEN 4
        ELSE IF run_time < t_end THEN 5
        ELSE 6

\* what each branch of tick returns
RealisticReturn(e, branch) ==
    LET peak_users == e.USERS
        spawn_rate == e.SPAWN_RATE
    IN  CASE branch = 1 -> Run(Max(2, IntMul(peak_users, 1, 10)), Max(1, spawn_rate \div 2))
          [] branch = 2 -> Run(IntMul(peak_users, 5, 10), spawn_rate)
          [] branch = 3 -> Run(peak_users, spawn_rate)
          [] branch = 4 -> Run(IntMul(peak_users, 3, 10), spawn_rate)
          [] branch = 5 -> Run(Max(2, IntMul(peak_users, 5, 100)), spawn_rate)
          [] OTHER -> Stop

(***************************************************************************)
(* shapes/custom.py                                                        *)
(***************************************************************************)
\* stage['duration'], stage['users'], stage['spawn_rate'] all present
HasAllKeys(stage) == StageKeys \subseteq DOMAIN stage

\* __init__: parse, fall back to [] on JSONDecodeError, then print every
\* stage, which reads its three keys (KeyError when one is missing).
CustomInit(e) ==
    LET parsed == JsonLoads(e.CUSTOM_STAGES)
        stages == IF parsed.ok THEN parsed.value ELSE << >>
    IN  IF stages = << >> THEN [raised |-> FALSE, stages |-> stages]
        ELSE IF \E i \in 1..Len(stages) : ~HasAllKeys(stages[i])
            THEN [raised |-> TRUE, stages |-> stages]
        ELSE [raised |-> FALSE, stages |-> stages]

\* the scan with run_time <= stage["duration"]
RECURSIVE CustomScanInclusive(_, _, _)
CustomScanInclusive(stages, i, run_time) ==
    IF i > Len(stages) THEN Stop
    ELSE LET stage == stages[i]
         IN  IF "duration" \notin DOMAIN stage THEN Raise
             ELSE IF run_time <= stage["duration"]
                 THEN IF {"users", "spawn_rate"} \subseteq DOMAIN stage
                      THEN Run(stage["users"], stage["spawn_rate"])
                      ELSE Raise
             ELSE CustomScanInclusive(stages, i + 1, run_time)

\* the scan that keeps going and returns the last stage that matches
RECURSIVE CustomScanLast(_, _, _)
CustomScanLast(stages, i, run_time) ==
    IF i > Len(stages) THEN Stop
    ELSE LET stage == stages[i]
             later == CustomScanLast(stages, i + 1, run_time)
         IN  IF "duration" \notin DOMAIN stage THEN Raise
             ELSE IF run_time < stage["duration"]
                 THEN IF {"users", "spawn_rate"} \subseteq DOMAIN stage
                      THEN (IF later.kind = "run" THEN later
                            ELSE Run(stage["users"], stage["spawn_rate"]))
                      ELSE Raise
             ELSE later

\* tick: the first stage, in list order, with run_time < stage["duration"]
RECURSIVE CustomScan(_, _, _)
CustomScan(stages, i, run_time) ==
    IF i > Len(stages) THEN Stop
    ELSE LET stage == stages[i]
         IN  IF "duration" \notin DOMAIN stage THEN Raise
             ELSE IF run_time < stage["duration"]
                 THEN IF {"users", "spawn_rate"} \subseteq DOMAIN stage
                      THEN Run(stage["users"], stage["spawn_rate"])
                      ELSE Raise
             ELSE CustomScan(stages, i + 1, run_time)

CustomTick(o, run_time) == CustomScan(o.stages, 1, run_time)

(***************************************************************************)
(* Construction and tick of whichever shape LOAD_SHAPE selects.            *)
(***************************************************************************)
ShapeInit(s, e) ==
    CASE s = "spike" -> [raised |-> FALSE, obj |-> SpikeInit(e)]
      [] s = "custom" -> LET c == CustomInit(e)
                         IN  [raised |-> c.raised, obj |-> [stages |-> c.stages]]
      [] OTHER -> [raised |-> FALSE, obj |-> [stages |-> << >>]]

ShapeTick(s, o, e, t) ==
    CASE s = "steady" -> SteadyTick(e, t)
      [] s = "spike" -> SpikeTick(o, t)
      [] s = "realistic" -> RealisticTick(e, t)
      [] s = "custom" -> CustomTick(o, t)

(***************************************************************************)
(* The configurations explored.                                            *)
(***************************************************************************)
DefaultPeak == 50       \* USERS default of realistic.py
DefaultSpawn == 5       \* SPAWN_RATE default of realistic.py
DefaultTotal == 300     \* RUN_TIME_SECONDS default of realistic.py

SeqsUpTo(S, n) == UNION {[1..k -> S] : k \in 0..n}

\* a JSON object holding the keys F of a full stage
Keep(stage, F) == [k \in F |-> stage[k]]

SteadyEnvs(US, DS) ==
    {[BaseEnv EXCEPT !.USERS = u, !.RUN_TIME_SECONDS = d] : u \in US, d \in DS}

SpikeEnvs(US, RS, DS) ==
    {[BaseEnv EXCEPT !.SPIKE_BASELINE_USERS = b, !.SPIKE_PEAK_USERS = p,
                     !.SPAWN_RATE = s,
                     !.SPIKE_BASELINE_DURATION = d[1], !.SPIKE_RAMP_DURATION = d[2],
                     !.SPIKE_HOLD_DURATION = d[3], !.SPIKE_COOLDOWN_DURATION = d[4]] :
        b \in US, p \in US, s \in RS, d \in [1..4 -> DS]}

RealisticEnvs(US, RS, DS) ==
    {[BaseEnv EXCEPT !.USERS = u, !.SPAWN_RATE = s, !.RUN_TIME_SECONDS = d] :
        u \in US, s \in RS, d \in DS}

StageObjects(US, RS, DS) ==
    {Keep([duration |-> d, users |-> u, spawn_rate |-> s], F) :
        d \in DS, u \in US, s \in RS, F \in SUBSET StageKeys}

CustomEnvs(US, RS, DS, ms) ==
    {[BaseEnv EXCEPT !.CUSTOM_STAGES = t] :
        t \in {Garbage} \cup {ArrayText(q) : q \in SeqsUpTo(StageObjects(US, RS, DS), ms)}}

Configs ==
    ({"steady"} \X SteadyEnvs(0..MaxUsers, 0..MaxDur))
    \cup ({"spike"} \X SpikeEnvs(0..MaxUsers, 1..MaxRate, 0..MaxDur))
    \cup ({"realistic"} \X RealisticEnvs((0..MaxUsers) \cup {DefaultPeak},
                                         1..MaxRate, 0..(10 * MaxDur)))
    \cup ({"realistic"} \X RealisticEnvs({DefaultPeak}, {DefaultSpawn}, {DefaultTotal}))
    \cup ({"custom"} \X CustomEnvs({1, MaxUsers}, {MaxRate}, 0..(MaxDur + 1), MaxStages))

\* PairSpec: every phase is empty or PairMax seconds long
PairConfigs ==
    ({"steady"} \X SteadyEnvs({0, PairMax}, {0, PairMax}))
    \cup ({"spike"} \X SpikeEnvs({0, PairMax}, {PairMax}, {0, PairMax}))
    \cup ({"realistic"} \X RealisticEnvs({PairMax, DefaultPeak}, {PairMax},
                                         {0, 10 * PairMax}))
    \cup ({"custom"} \X CustomEnvs({1, PairMax}, {PairMax}, 1..PairMax, MaxStages))

\* the durations the entries of a stage list give
StageDurations(text) ==
    {text.items[i]["duration"] :
        i \in {j \in 1..Len(text.items) : "duration" \in DOMAIN text.items[j]}}

SetMax(S) == IF S = {} THEN 0 ELSE CHOOSE x \in S : \A y \in S : y <= x

\* the elapsed time at which the configured plan is over
PlanEnd(s, e) ==
    CASE s = "spike" -> e.SPIKE_BASELINE_DURATION + e.SPIKE_RAMP_DURATION
                        + e.SPIKE_HOLD_DURATION + e.SPIKE_COOLDOWN_DURATION
      [] s = "custom" -> SetMax(StageDurations(e.CUSTOM_STAGES))
      [] OTHER -> e.RUN_TIME_SECONDS

Horizon == PlanEnd(shape, env) + MaxOver

NoObject == [stages |-> << >>]

(***************************************************************************)
(* scripts/mlflow_logger.py: the result files and their readers.  A file   *)
(* is absent, holds text its reader rejects ("bad"), or holds items.       *)
(* Metric values are whole numbers of the unit their key names.            *)
(***************************************************************************)
MAX_BATCH_SIZE == 1000      \* mlflow_logger.py; batch_size of mlflow_hooks.py

Exports == {1, 2}

NoFile == [kind |-> "absent", items |-> << >>]
BadFile == [kind |-> "bad", items |-> << >>]
File(items) == [kind |-> "ok", items |-> items]

\* trace_metrics.json: a JSON object holding the sections named in has
TraceJson(has, agg, per_req) ==
    [kind |-> "ok", has |-> has, agg |-> agg, per_req |-> per_req]
NoTraceFile == [kind |-> "absent", has |-> {}, agg |-> << >>, per_req |-> << >>]
BadTraceFile == [kind |-> "bad", has |-> {}, agg |-> << >>, per_req |-> << >>]

RECURSIVE SumOf(_, _)
SumOf(rows, col) ==
    IF rows = << >> THEN 0 ELSE rows[1][col] + SumOf(Tail(rows), col)

\* read_locust_stats: the columns of the "Aggregated" row that parse as float
ReadLocustStats(f) == IF f.kind = "ok" THEN f.items ELSE << >>

\* read_summary_metrics: {f"summary/{k}": v}, {} when absent or unreadable
ReadSummaryMetrics(f) ==
    IF f.kind = "ok"
    THEN [i \in 1..Len(f.items) |->
            [name |-> "summary/" \o f.items[i].name, val |-> f.items[i].val]]
    ELSE << >>

\* read_timeseries_metrics: the samples, [] when absent or unreadable
ReadTimeseriesMetrics(f) == IF f.kind = "ok" THEN f.items ELSE << >>

\* read_mcp_metrics: six aggregates over the rows, {} without rows
ReadMcpMetrics(f) ==
    IF f.kind # "ok" \/ f.items = << >> THEN << >>
    ELSE LET rows == f.items
             n == Len(rows)
         IN  <<[name |-> "mcp/avg_response_time_ms",
                val |-> SumOf(rows, "response_time") \div n],
               [name |-> "mcp/avg_tool_calls_per_request",
                val |-> SumOf(rows, "mcp_call_count") \div n],
               [name |-> "mcp/total_tool_calls", val |-> SumOf(rows, "mcp_call_count")],
               [name |-> "mcp/avg_input_tokens",
                val |-> SumOf(rows, "input_tokens") \div n],
               [name |-> "mcp/avg_output_tokens",
                val |-> SumOf(rows, "output_tokens") \div n],
               [name |-> "mcp/avg_total_tokens",
                val |-> SumOf(rows, "total_tokens") \div n]>>

LineOk(line) == line.ok

\* read_hpa_metrics: one sample per line, lines that are not JSON skipped
ReadHpaMetrics(f) == IF f.kind = "ok" THEN SelectSeq(f.items, LineOk) ELSE << >>

\* a reader that lets the missing file raise
ReadTraceMetricsStrict(f) ==
    IF f.kind = "ok"
    THEN [raised |-> FALSE,
          agg |-> IF "aggregate_metrics" \in f.has THEN f.agg ELSE << >>,
          per_req |-> IF "per_request_metrics" \in f.has THEN f.per_req ELSE << >>]
    ELSE [raised |-> f.kind = "absent", agg |-> << >>, per_req |-> << >>]

\* read_trace_metrics: ({}, []) when the file is absent or unreadable, and
\* data.get(section, default) for each section of the object
ReadTraceMetrics(f) ==
    IF f.kind = "ok"
    THEN [raised |-> FALSE,
          agg |-> IF "aggregate_metrics" \in f.has THEN f.agg ELSE << >>,
          per_req |-> IF "per_request_metrics" \in f.has THEN f.per_req ELSE << >>]
    ELSE [raised |-> FALSE, agg |-> << >>, per_req |-> << >>]

NothingLoaded ==
    [locust |-> << >>, summary |-> << >>, timeseries |-> << >>, mcp |-> << >>,
     hpa |-> << >>, trace_agg |-> << >>, trace_per_req |-> << >>]

\* main: the six reads; mlflow_hooks reads only its _timeseries_buffer
ReadAll(site, d) ==
    IF site = "mlflow_hooks"
    THEN [raised |-> FALSE,
          loaded |-> [NothingLoaded EXCEPT !.timeseries = d.timeseries.items]]
    ELSE LET t == ReadTraceMetrics(d.trace)
         IN  [raised |-> t.raised,
              loaded |-> [locust |-> ReadLocustStats(d.locust),
                          summary |-> ReadSummaryMetrics(d.summary),
                          timeseries |-> ReadTimeseriesMetrics(d.timeseries),
                          mcp |-> ReadMcpMetrics(d.mcp),
                          hpa |-> ReadHpaMetrics(d.hpa),
                          trace_agg |-> t.agg,
                          trace_per_req |-> t.per_req]]

(***************************************************************************)
(* The metric points.  Emitted(...) lists, for one source, the points main *)
(* appends, each with the source record it comes from.                     *)
(***************************************************************************)
Metric(key, value, timestamp, step) ==
    [key |-> key, value |-> value, timestamp |-> timestamp, step |-> step]

Emit(m, src, rec) == [m |-> m, src |-> src, rec |-> rec]

\* for name, val in d.items(): Metric(name, val, now_ms, step=0)
ScalarPoints(src, d, now_ms) ==
    [i \in 1..Len(d) |-> Emit(Metric(d[i].name, d[i].val, now_ms, 0), src, i)]

TimeseriesKeys ==
    <<"active_users", "target_users", "rps_10s_window",
      "failures_per_sec_10s_window", "avg_response_time_cumulative_ms",
      "total_requests_cumulative", "total_failures_cumulative",
      "fail_ratio_cumulative_pct">>

SampleValue(sample, j) ==
    CASE j = 1 -> sample.active_users
      [] j = 2 -> sample.target_users
      [] j = 3 -> sample.requests_per_sec
      [] j = 4 -> sample.failures_per_sec
      [] j = 5 -> sample.avg_response_time_ms
      [] j = 6 -> sample.total_requests
      [] j = 7 -> sample.total_failures
      [] j = 8 -> sample.fail_ratio * 100

\* eight points per sample, at step sample["second"]
TimeseriesPoints(ts, now_ms) ==
    LET w == Len(TimeseriesKeys)
    IN  [i \in 1..(w * Len(ts)) |->
            LET n == ((i - 1) \div w) + 1
                j == ((i - 1) % w) + 1
            IN  Emit(Metric(TimeseriesKeys[j], SampleValue(ts[n], j), now_ms,
                            ts[n].second), "timeseries", n)]

\* three points per HPA sample and four more when its hpa section is not empty
RECURSIVE HpaPoints(_, _, _)
HpaPoints(hpa, n, now_ms) ==
    IF n > Len(hpa) THEN << >>
    ELSE LET s == hpa[n]
             step == s.sample
             P(key, value) == Emit(Metric(key, value, now_ms, step), "hpa", n)
         IN  <<P("cluster/pod_count", s.pod_count),
               P("memory/avg_ki", s.avg_memory_ki),
               P("cpu/avg_nanocores", s.avg_cpu_n)>>
             \o (IF s.hpa.present
                 THEN <<P("hpa/current_replicas", s.hpa.currentReplicas),
                        P("hpa/desired_replicas", s.hpa.desiredReplicas),
                        P("cpu/hpa_percent", s.hpa.currentCPUPct),
                        P("memory/hpa_percent", s.hpa.currentMemoryPct)>>
                 ELSE << >>)
             \o HpaPoints(hpa, n + 1, now_ms)

\* per trace record: its duration when positive, its tool calls when positive
RECURSIVE TracePoints(_, _, _)
TracePoints(per_req, n, now_ms) ==
    IF n > Len(per_req) THEN << >>
    ELSE LET r == per_req[n]
             P(key, value) == Emit(Metric(key, value, now_ms, r.step),
                                   "trace_per_req", n)
         IN  (IF r.request_duration_ms > 0
              THEN <<P("trace/request_duration_ms", r.request_duration_ms)>>
              ELSE << >>)
             \o (IF r.tool_calls > 0
                 THEN <<P("trace/tool_calls_per_request", r.tool_calls)>>
                 ELSE << >>)
             \o TracePoints(per_req, n + 1, now_ms)

\* the order in which main appends the sources to batch_metrics
Sources(site) ==
    IF site = "mlflow_hooks" THEN <<"timeseries">>
    ELSE <<"locust", "summary", "mcp", "trace_agg", "timeseries", "hpa",
           "trace_per_req">>

Emitted(src, loaded, now_ms) ==
    CASE src = "locust" -> ScalarPoints(src, loaded.locust, now_ms)
      [] src = "summary" -> ScalarPoints(src, loaded.summary, now_ms)
      [] src = "mcp" -> ScalarPoints(src, loaded.mcp, now_ms)
      [] src = "trace_agg" -> ScalarPoints(src, loaded.trace_agg, now_ms)
      [] src = "timeseries" -> TimeseriesPoints(loaded.timeseries, now_ms)
      [] src = "hpa" -> HpaPoints(loaded.hpa, 1, now_ms)
      [] src = "trace_per_req" -> TracePoints(loaded.trace_per_req, 1, now_ms)

EmitM(e) == e.m
EmitFrom(e) == [src |-> e.src, rec |-> e.rec]
MapSeq(s, F(_)) == [i \in 1..Len(s) |-> F(s[i])]

\* metrics[i:i + MAX_BATCH_SIZE] that stops one short
SliceShort(metrics, i) ==
    SubSeq(metrics, i + 1, Min(i + MAX_BATCH_SIZE - 1, Len(metrics)))

\* metrics[i:i + MAX_BATCH_SIZE], i counted from 0
Slice(metrics, i) ==
    SubSeq(metrics, i + 1, Min(i + MAX_BATCH_SIZE, Len(metrics)))

EmptyDir ==
    [locust |-> NoFile, summary |-> NoFile, timeseries |-> NoFile,
     mcp |-> NoFile, hpa |-> NoFile, trace |-> NoTraceFile]

OffExporter ==
    [site |-> "mlflow_logger", pc |-> "off", arn |-> FALSE,
     loaded |-> NothingLoaded, now_ms |-> 0, k |-> 1,
     batch_metrics |-> << >>, from |-> << >>, i |-> 0, failed_at |-> 0,
     error |-> "", dir0 |-> EmptyDir]

ExporterIdle ==
    /\ results_dir = [x \in Exports |-> EmptyDir]
    /\ exporter = [x \in Exports |-> OffExporter]
    /\ backend = [x \in Exports |-> << >>]
    /\ clock = 0

(***************************************************************************)
(* The percentile statistics.  Response times and durations are counted in *)
(* thousandths of a millisecond; a statistic that divides is kept as the   *)
(* fraction num/den.                                                       *)
(***************************************************************************)
Ms(x) == 1000 * x

Q(num, den) == [num |-> num, den |-> den]

Lt(a, b) == a < b

\* sorted(values)
Sorted(values) == SortSeq(values, Lt)

\* max(values)
SeqMax(values) == SetMax({values[i] : i \in 1..Len(values)})

\* round(x, 2): the nearest hundredth, a tie going to the even one
Round2(v) ==
    LET q == v \div 10
        r == v % 10
    IN  10 * (IF r > 5 \/ (r = 5 /\ q % 2 = 1) THEN q + 1 ELSE q)

\* what indexing a list past its end gives: IndexError
IndexError == -1

\* list[k], k counted from 0
At(list, k) == IF k < Len(list) THEN list[k + 1] ELSE IndexError

\* the index rounded up: ceil(n * p)
RankIndexCeil(n, num, den) == (n * num + den - 1) \div den

\* int(len(sorted_rt) * p) for p = num/den, len(sorted_rt) // 2 for p = 1/2
RankIndex(n, num, den) == IntMul(n, num, den)

\* the indices the summary path uses for a list of n > 0 values
RankIndices(n) ==
    [has |-> TRUE, p50 |-> RankIndex(n, 1, 2), p95 |-> RankIndex(n, 95, 100),
     p99 |-> RankIndex(n, 99, 100)]

\* the rank taken one below: sorted_rt[int(len(sorted_rt) * p) - 1]
NearestRankBelow(sorted_rt, num, den) ==
    sorted_rt[Max(1, IntMul(Len(sorted_rt), num, den))]

\* sorted_rt[int(len(sorted_rt) * p)] for p = num/den; sorted_rt[len // 2]
\* for p = 1/2 (Python indexes from 0)
NearestRank(sorted_rt, num, den) ==
    At(sorted_rt, RankIndex(Len(sorted_rt), num, den))

NoPercentiles == [has |-> FALSE, p50 |-> 0, p95 |-> 0, p99 |-> 0]

\* metrics_collector._on_test_stop: response_time_p50/p95/p99_ms of
\* summary_metrics.json, left out when there are no response times
CollectorPercentiles(all_response_times) ==
    IF all_response_times = << >> THEN NoPercentiles
    ELSE LET sorted_rt == Sorted(all_response_times)
         IN  [has |-> TRUE,
              p50 |-> Round2(NearestRank(sorted_rt, 1, 2)),
              p95 |-> Round2(NearestRank(sorted_rt, 95, 100)),
              p99 |-> Round2(NearestRank(sorted_rt, 99, 100))]

\* mlflow_hooks._on_test_stop: the response_time_p50/p95/p99_ms it logs
HooksPercentiles(all_response_times) ==
    IF all_response_times = << >> THEN NoPercentiles
    ELSE LET sorted_rt == Sorted(all_response_times)
         IN  [has |-> TRUE,
              p50 |-> NearestRank(sorted_rt, 1, 2),
              p95 |-> NearestRank(sorted_rt, 95, 100),
              p99 |-> NearestRank(sorted_rt, 99, 100)]

\* statistics.median(values)
Median(values) ==
    LET data == Sorted(values)
        n == Len(data)
    IN  IF n % 2 = 1 THEN Q(data[(n \div 2) + 1], 1)
        ELSE Q(data[n \div 2] + data[(n \div 2) + 1], 2)

\* statistics.quantiles(values, n=20)[18], method "exclusive", for two or
\* more values
Quantiles19(values) ==
    LET data == Sorted(values)
        ld == Len(data)
        m == ld + 1
        j0 == (19 * m) \div 20
        j == IF j0 < 1 THEN 1 ELSE IF j0 > ld - 1 THEN ld - 1 ELSE j0
        delta == 19 * m - j * 20
    IN  Q(data[j] * (20 - delta) + data[j + 1] * delta, 20)

\* safe_p95 with the cut-off at 5 values
SafeP95Low(values) ==
    IF Len(values) >= 5 THEN Quantiles19(values) ELSE Q(SeqMax(values), 1)

\* safe_p95(values)
SafeP95(values) ==
    IF Len(values) >= 20 THEN Quantiles19(values) ELSE Q(SeqMax(values), 1)

NoTracePercentiles == [has |-> FALSE, p50 |-> Q(0, 1), p95 |-> Q(0, 1)]

\* compute_aggregates: trace/p50_... and trace/p95_... of a non-empty list
TracePercentiles(values) ==
    IF values = << >> THEN NoTracePercentiles
    ELSE [has |-> TRUE, p50 |-> Median(values), p95 |-> SafeP95(values)]

NoStats ==
    [done |-> FALSE, input |-> << >>,
     index |-> NoPercentiles,
     metrics_collector |-> NoPercentiles, mlflow_hooks |-> NoPercentiles,
     trace_analyzer |-> NoTracePercentiles]

StatsIdle == response_times = << >> /\ stats = NoStats

(***************************************************************************)
(* scripts/trace_analyzer.py: spans and the metrics derived from them.     *)
(* A span name is the sequence of its words, so that "k in name" is "k is  *)
(* one of the words"; span times are counted in milliseconds.              *)
(***************************************************************************)
RequestNames == {<<"/v1/responses">>, <<"create_response">>}
InferenceKeys == {"openai_chat_completion", "InferenceRouter", "chat_completion"}
ListToolsKeys == {"list_mcp_tools", "list_tools"}
InvokeToolKeys == {"invoke_mcp_tool", "invoke_tool"}

\* any(k in name for k in keys)
AnyIn(keys, name) == \E i \in 1..Len(name) : name[i] \in keys

Span(name, start, end) ==
    [name |-> name, startTimeUnixNano |-> start, endTimeUnixNano |-> end]

\* dur_ms = (end_ns - start_ns) / 1_000_000 if start_ns and end_ns else 0
DurMs(span) ==
    IF span.startTimeUnixNano # 0 /\ span.endTimeUnixNano # 0
    THEN span.endTimeUnixNano - span.startTimeUnixNano
    ELSE 0

NoResult ==
    [tool_call_count |-> 0, request_duration_ms |-> 0,
     inference_durations_ms |-> << >>, list_mcp_tools_durations_ms |-> << >>,
     invoke_mcp_tool_durations_ms |-> << >>]

\* the body of the loop of analyze_spans for one span
AnalyzeSpan(result, span) ==
    LET name == span.name
        dur_ms == DurMs(span)
        Add(list, yes) == IF yes THEN Append(list, dur_ms) ELSE list
    IN  [tool_call_count |->
            result.tool_call_count + (IF AnyIn(InvokeToolKeys, name) THEN 1 ELSE 0),
         request_duration_ms |->
            IF name \in RequestNames /\ dur_ms > 0 THEN dur_ms
            ELSE result.request_duration_ms,
         inference_durations_ms |->
            Add(result.inference_durations_ms,
                AnyIn(InferenceKeys, name) /\ dur_ms > 0),
         list_mcp_tools_durations_ms |->
            Add(result.list_mcp_tools_durations_ms,
                AnyIn(ListToolsKeys, name) /\ dur_ms > 0),
         invoke_mcp_tool_durations_ms |->
            Add(result.invoke_mcp_tool_durations_ms,
                AnyIn(InvokeToolKeys, name) /\ dur_ms > 0)]

RECURSIVE AnalyzeFrom(_, _, _)
AnalyzeFrom(result, spans, n) ==
    IF n > Len(spans) THEN result
    ELSE AnalyzeFrom(AnalyzeSpan(result, spans[n]), spans, n + 1)

\* analyze_spans(spans)
AnalyzeSpans(spans) == AnalyzeFrom(NoResult, spans, 1)

\* a span that one of the recognized patterns matches
Matched(span) ==
    \/ span.name \in RequestNames
    \/ AnyIn(InferenceKeys \cup ListToolsKeys \cup InvokeToolKeys, span.name)

RECURSIVE Column(_, _)
Column(rows, col) ==
    IF rows = << >> THEN << >> ELSE <<rows[1][col]>> \o Column(Tail(rows), col)

RECURSIVE Flat(_)
Flat(lists) == IF lists = << >> THEN << >> ELSE lists[1] \o Flat(Tail(lists))

RECURSIVE SumSeq(_)
SumSeq(values) == IF values = << >> THEN 0 ELSE values[1] + SumSeq(Tail(values))

Positive(v) == v > 0

SeqMin(values) ==
    CHOOSE x \in {values[i] : i \in 1..Len(values)} :
        \A i \in 1..Len(values) : x <= values[i]

\* statistics.mean(values)
Mean(values) == Q(SumSeq(values), Len(values))

Named(name, val) == [name |-> name, val |-> val]

\* compute_aggregates(per_request): the mapping, in insertion order
ComputeAggregates(per_request) ==
    IF per_request = << >> THEN << >>
    ELSE LET durations == SelectSeq(Column(per_request, "request_duration_ms"), Positive)
             tools == SelectSeq(Column(per_request, "tool_call_count"), Positive)
             inference == Flat(Column(per_request, "inference_durations_ms"))
             list_tools == Flat(Column(per_request, "list_mcp_tools_durations_ms"))
             invoke == Flat(Column(per_request, "invoke_mcp_tool_durations_ms"))
         IN  (IF durations # << >>
              THEN <<Named("trace/avg_total_request_duration_ms", Mean(durations)),
                     Named("trace/p50_total_request_duration_ms", Median(durations)),
                     Named("trace/p95_total_request_duration_ms", SafeP95(durations)),
                     Named("trace/min_total_request_duration_ms", Q(SeqMin(durations), 1)),
                     Named("trace/max_total_request_duration_ms", Q(SeqMax(durations), 1))>>
              ELSE << >>)
             \o (IF tools # << >>
                 THEN <<Named("trace/avg_tool_calls_per_request", Mean(tools)),
                        Named("trace/total_tool_calls", Q(SumSeq(tools), 1))>>
                 ELSE << >>)
             \o (IF inference # << >>
                 THEN <<Named("trace/avg_inference_duration_ms", Mean(inference)),
                        Named("trace/p50_inference_duration_ms", Median(inference)),
                        Named("trace/p95_inference_duration_ms", SafeP95(inference))>>
                 ELSE << >>)
             \o (IF list_tools # << >>
                 THEN <<Named("trace/avg_list_tools_duration_ms", Mean(list_tools))>>
                 ELSE << >>)
             \o (IF invoke # << >>
                 THEN <<Named("trace/avg_invoke_tool_duration_ms", Mean(invoke)),
                        Named("trace/p95_invoke_tool_duration_ms", SafeP95(invoke))>>
                 ELSE << >>)

\* per_request_out: step, trace_id, request_duration_ms, tool_calls
PerRequestOut(per_request) ==
    [n \in 1..Len(per_request) |->
        [step |-> per_request[n].step, trace_id |-> per_request[n].trace_id,
         request_duration_ms |-> per_request[n].request_duration_ms,
         tool_calls |-> per_request[n].tool_call_count]]

Output(trace_count, aggregate_metrics, per_request_metrics) ==
    [kind |-> "ok", trace_count |-> trace_count,
     aggregate_metrics |-> aggregate_metrics,
     per_request_metrics |-> per_request_metrics]

\* no trace_metrics.json in the results directory
NoOutput == [kind |-> "absent", trace_count |-> 0,
             aggregate_metrics |-> << >>, per_request_metrics |-> << >>]

\* empty_output
EmptyOutput == Output(0, << >>, << >>)

\* no search issued
NoQuery == [issued |-> FALSE, start |-> 0, end |-> 0]

OffAnalyzer ==
    [pc |-> "off", summaries |-> << >>, i |-> 0, per_request |-> << >>,
     raw_traces |-> 0, fetched |-> << >>,
     search_window_buffer |-> 0, start |-> 0, end |-> 0,
     waited |-> FALSE, query |-> NoQuery]

\* --search-window-buffer not on the command line
NoOption == [given |-> FALSE, value |-> 0]

NoTempo == [stamps |-> "missing", start |-> 0, end |-> 0, argv |-> NoOption]

TraceIdle ==
    /\ tempo = NoTempo
    /\ analyzer = OffAnalyzer
    /\ trace_file = NoOutput

HookModules == {"metrics_collector", "mlflow_hooks"}
Events == {"test_start", "request", "test_stop"}

\* a fresh process: no hook module imported, no flag in os.environ, no
\* listener added
RegIdle ==
    /\ modules = [h \in HookModules |-> 0]
    /\ registered = [h \in HookModules |-> 0]
    /\ listeners = [ev \in Events |-> << >>]
    /\ fired = 0
    /\ handled = << >>

\* every component but the scheduler and the collector at rest
OthersIdle == ExporterIdle /\ StatsIdle /\ TraceIdle /\ RegIdle

(***************************************************************************)
(* Spec: one shape object, ticked at non-decreasing elapsed times.         *)
(***************************************************************************)
FollowIdle == fpc = "off" /\ active = 0

\* the hook modules freshly imported
CollectorInit ==
    /\ lifecycle = "ready"
    /\ run_started = FALSE
    /\ sampling_greenlet = 0
    /\ samplers = << >>
    /\ buffer = << >>
    /\ reads = << >>
    /\ origin = << >>
    /\ stopPc = "idle"
    /\ due = FALSE
    /\ handoff = << >>
    /\ stopped = FALSE

CollectorIdle == hook = "metrics_collector" /\ mlflowOn = FALSE /\ CollectorInit

\* one shape object per run in Started, none constructed yet
SchedInit(C, Started) ==
    /\ \E c \in C : shape = c[1] /\ env = c[2]
    /\ self = [r \in Runs |-> NoObject]
    /\ pc = [r \in Runs |-> IF r \in Started THEN "new" ELSE "off"]
    /\ elapsed = [r \in Runs |-> 0]
    /\ decision = [r \in Runs |-> NoDecision]
    /\ calls = [r \in Runs |-> 0]

Init == SchedInit(Configs, {1}) /\ FollowIdle /\ CollectorIdle /\ OthersIdle

\* LoadTestShape subclass instantiated by locust: __init__ runs
Construct(r) ==
    /\ pc[r] = "new"
    /\ LET i == ShapeInit(shape, env)
       IN  /\ self' = [self EXCEPT ![r] = i.obj]
           /\ pc' = [pc EXCEPT ![r] = IF i.raised THEN "raised" ELSE "ready"]
    /\ UNCHANGED <<shape, env, elapsed, decision, calls, fpc, active>>
    /\ UNCHANGED nonSchedVars

Counted(c) == IF c < 2 THEN c + 1 ELSE c

\* the tick of a shape that measures run time from its previous call
CallSinceLast(r, t) ==
    /\ pc[r] = "ready"
    /\ t >= elapsed[r]
    /\ LET d == ShapeTick(shape, self[r], env, t - elapsed[r])
       IN  /\ decision' = [decision EXCEPT ![r] = d]
           /\ pc' = [pc EXCEPT ![r] = IF d.kind = "raise" THEN "raised" ELSE "ready"]
    /\ elapsed' = [elapsed EXCEPT ![r] = t]
    /\ calls' = [calls EXCEPT ![r] = Counted(calls[r])]
    /\ UNCHANGED <<shape, env, self>>

\* tick() called when get_run_time() = t: the result depends on t, the
\* environment and the fields set by __init__, and tick assigns nothing
Call(r, t) ==
    /\ pc[r] = "ready"
    /\ t >= elapsed[r]
    /\ LET d == ShapeTick(shape, self[r], env, t)
       IN  /\ decision' = [decision EXCEPT ![r] = d]
           /\ pc' = [pc EXCEPT ![r] = IF d.kind = "raise" THEN "raised" ELSE "ready"]
    /\ elapsed' = [elapsed EXCEPT ![r] = t]
    /\ calls' = [calls EXCEPT ![r] = Counted(calls[r])]
    /\ UNCHANGED <<shape, env, self>>

Tick(r, t) == Call(r, t) /\ UNCHANGED <<fpc, active>> /\ UNCHANGED nonSchedVars

Next ==
    \/ Construct(1)
    \/ \E t \in elapsed[1]..Min(elapsed[1] + MaxGap, Horizon) : Tick(1, t)

Spec == Init /\ [][Next]_vars

(***************************************************************************)
(* PairSpec: two runs of the same configuration, each ticked at its own    *)
(* elapsed times.                                                          *)
(***************************************************************************)
InitPair == SchedInit(PairConfigs, Runs) /\ FollowIdle /\ CollectorIdle /\ OthersIdle

NextPair ==
    \/ \E r \in Runs : Construct(r)
    \/ \E r \in Runs : \E t \in elapsed[r]..Min(elapsed[r] + MaxGap, Horizon) : Tick(r, t)

PairSpec == InitPair /\ [][NextPair]_vars

(***************************************************************************)
(* FollowSpec: the spike shape driving a load generator.  Once a second    *)
(* the generator calls tick and moves its user count toward the returned   *)
(* target at the returned spawn rate; it quits when tick returns None.     *)
(***************************************************************************)
InitFollow ==
    /\ SchedInit({"spike"} \X SpikeEnvs(0..MaxUsers, 1..MaxRate, 0..MaxDur), {1})
    /\ fpc = "tick"
    /\ active = 0
    /\ CollectorIdle
    /\ OthersIdle

\* the generator's call of tick at the current second
GeneratorTick ==
    /\ fpc = "tick"
    /\ Call(1, elapsed[1])
    /\ fpc' = IF decision'[1].kind = "run" THEN "spawn" ELSE "quit"
    /\ active' = IF decision'[1].kind = "run" THEN active ELSE 0
    /\ UNCHANGED nonSchedVars

\* user count after one second of spawning or stopping toward the target
Toward(n, target, rate) ==
    IF n < target THEN Min(target, n + rate) ELSE Max(target, n - rate)

\* one second passes while the generator follows the latest decision
GeneratorSecond ==
    /\ fpc = "spawn"
    /\ active' = Toward(active, decision[1].users, decision[1].spawn_rate)
    /\ elapsed' = [elapsed EXCEPT ![1] = elapsed[1] + 1]
    /\ fpc' = "tick"
    /\ UNCHANGED <<shape, env, self, pc, decision, calls>>
    /\ UNCHANGED nonSchedVars

NextFollow ==
    \/ Construct(1)
    \/ GeneratorTick
    \/ GeneratorSecond

FollowSpec == InitFollow /\ [][NextFollow]_vars

(***************************************************************************)
(* Claims on the shapes, checked under Spec.                               *)
(***************************************************************************)
Ticked(r) == decision[r].kind # "none"

Items == env.CUSTOM_STAGES.items

\* a valid stage list: parseable, non-empty, every entry complete, and the
\* cumulative thresholds strictly increasing
ValidStages ==
    /\ shape = "custom"
    /\ env.CUSTOM_STAGES.kind = "array"
    /\ Len(Items) >= 1
    /\ \A i \in 1..Len(Items) : HasAllKeys(Items[i])
    /\ \A i \in 1..Len(Items) : \A j \in 1..Len(Items) :
            i < j => Items[i]["duration"] < Items[j]["duration"]

FinalThreshold == Items[Len(Items)]["duration"]

\* C1 as claimed: for a valid stage list tick returns (users, spawn_rate) at
\* every elapsed up to and including the final threshold, and STOP exactly
\* when elapsed is larger than the final threshold.
C1_AsClaimed ==
    (ValidStages /\ Ticked(1)) =>
        /\ elapsed[1] <= FinalThreshold => decision[1].kind = "run"
        /\ elapsed[1] > FinalThreshold => decision[1].kind = "stop"

\* C1 amended: for a valid stage list tick returns (users, spawn_rate) at
\* every elapsed strictly below the final threshold, and STOP exactly when
\* elapsed has reached the final threshold (elapsed >= threshold).
C1_StopFromFinalThreshold ==
    (ValidStages /\ Ticked(1)) =>
        /\ elapsed[1] < FinalThreshold => decision[1].kind = "run"
        /\ elapsed[1] >= FinalThreshold => decision[1].kind = "stop"

C1_Witness ==
    /\ ValidStages
    /\ Len(Items) = 2
    /\ Ticked(1)
    /\ elapsed[1] = FinalThreshold
    /\ decision[1].kind = "stop"

\* a malformed stage list: unparseable text, an empty array, or an array
\* with an entry that misses duration, users or spawn_rate
Malformed ==
    /\ shape = "custom"
    /\ \/ env.CUSTOM_STAGES.kind = "garbage"
       \/ Len(Items) = 0
       \/ \E i \in 1..Len(Items) : ~HasAllKeys(Items[i])

\* C2: for a malformed custom stage list neither the constructor nor tick
\* raises, and tick returns STOP from the very first call.
C2_MalformedStopsWithoutRaising ==
    Malformed =>
        /\ pc[1] # "raised"
        /\ Ticked(1) => decision[1].kind = "stop"

IsDefaultRealistic ==
    /\ shape = "realistic"
    /\ env.RUN_TIME_SECONDS = DefaultTotal
    /\ env.USERS = DefaultPeak

\* C5: the realistic shape with D = 300 and peak = 50 returns concurrency 5
\* on [0,30), 25 on [30,75), 50 on [75,195), 15 on [195,255), 2 on
\* [255,300), and STOP beyond 300 seconds.
C5_RealisticDefaultPlan ==
    (IsDefaultRealistic /\ Ticked(1)) =>
        LET t == elapsed[1]
            d == decision[1]
        IN  /\ t < 30 => (d.kind = "run" /\ d.users = 5)
            /\ (30 <= t /\ t < 75) => (d.kind = "run" /\ d.users = 25)
            /\ (75 <= t /\ t < 195) => (d.kind = "run" /\ d.users = 50)
            /\ (195 <= t /\ t < 255) => (d.kind = "run" /\ d.users = 15)
            /\ (255 <= t /\ t < 300) => (d.kind = "run" /\ d.users = 2)
            /\ t > 300 => d.kind = "stop"

C5_Witness ==
    /\ IsDefaultRealistic
    /\ elapsed[1] = 255
    /\ decision[1].kind = "run"
    /\ decision[1].users = 2

(***************************************************************************)
(* Claims on the spike ramp (FollowSpec) and on purity (PairSpec).         *)
(***************************************************************************)
RampEnd == env.SPIKE_BASELINE_DURATION + env.SPIKE_RAMP_DURATION

SpikeRamps ==
    /\ shape = "spike"
    /\ env.SPIKE_PEAK_USERS > env.SPIKE_BASELINE_USERS
    /\ env.SPIKE_RAMP_DURATION > 0
    /\ pc[1] = "ready"

\* C3: with peak > baseline and R > 0 the derived ramp rate is at least
\* ceil((peak - baseline) / R), and a generator following the tick decisions
\* has peak users active when elapsed reaches baseline_duration + ramp_duration.
C3_PeakReachedByRampEnd ==
    SpikeRamps =>
        /\ self[1].ramp_spawn_rate
             >= CeilDiv(env.SPIKE_PEAK_USERS - env.SPIKE_BASELINE_USERS,
                        env.SPIKE_RAMP_DURATION)
        /\ (fpc = "tick" /\ elapsed[1] = RampEnd) => active = env.SPIKE_PEAK_USERS

SchedIdle ==
    /\ shape = "steady"
    /\ env = BaseEnv
    /\ self = [r \in Runs |-> NoObject]
    /\ pc = [r \in Runs |-> "off"]
    /\ elapsed = [r \in Runs |-> 0]
    /\ decision = [r \in Runs |-> NoDecision]
    /\ calls = [r \in Runs |-> 0]

InitCollector ==
    /\ SchedIdle
    /\ FollowIdle
    /\ hook \in {"metrics_collector", "mlflow_hooks"}
    /\ mlflowOn \in (IF hook = "mlflow_hooks" THEN BOOLEAN ELSE {FALSE})
    /\ CollectorInit
    /\ OthersIdle

Greenlets == 1..Len(samplers)

\* a greenlet spawned on _sample_loop, not yet run
NewSampler ==
    [pc |-> "spawned", second |-> 0, got |-> FALSE,
     ticks |-> 0, killedAt |-> "no"]

\* some sampler is inside its tick body, between two gevent.sleep calls
Running == \E g \in Greenlets : samplers[g].pc \in {"try", "incr"}

\* an event handler gets to run: no other greenlet is running or mid-call
HandlersMayRun == stopPc = "idle" /\ ~Running

\* _start_timeseries_sampling: gevent.spawn(_sample_loop)
Spawn ==
    /\ samplers' = Append(samplers, NewSampler)
    /\ sampling_greenlet' = Len(samplers) + 1

\* _on_test_start without the _run_started guard: a second delivery spawns
\* a second sampler
OnTestStartUnguarded ==
    /\ HandlersMayRun
    /\ lifecycle' = "running"
    /\ IF Len(samplers) >= 2 \/ (hook = "mlflow_hooks" /\ ~mlflowOn)
         THEN UNCHANGED <<run_started, samplers, sampling_greenlet>>
       ELSE run_started' = TRUE /\ Spawn
    /\ UNCHANGED <<hook, mlflowOn, buffer, reads, origin, stopPc, due, handoff, stopped>>
    /\ UNCHANGED nonCollVars

\* _on_test_start: locust fires test_start for a run; a second delivery may
\* reach the handler while the run is on
OnTestStart ==
    /\ HandlersMayRun
    /\ lifecycle' = "running"
    /\ IF run_started
         THEN UNCHANGED <<run_started, samplers, sampling_greenlet>>
       ELSE IF hook = "mlflow_hooks" /\ ~mlflowOn
         THEN UNCHANGED <<run_started, samplers, sampling_greenlet>>
       ELSE run_started' = TRUE /\ Spawn
    /\ UNCHANGED <<hook, mlflowOn, buffer, reads, origin, stopPc, due, handoff, stopped>>
    /\ UNCHANGED nonCollVars

\* the greenlet starts running _sample_loop: second = 0, first gevent.sleep(1)
SamplerStart(g) ==
    /\ samplers[g].pc = "spawned"
    /\ ~Running
    /\ samplers' = [samplers EXCEPT ![g] =
            [@ EXCEPT !.pc = "sleep", !.second = 0]]
    /\ UNCHANGED <<hook, mlflowOn, lifecycle, run_started, sampling_greenlet,
                   buffer, reads, origin, stopPc, due, handoff, stopped>>
    /\ UNCHANGED nonCollVars

\* gevent.sleep(1) returns in the sampler.  While _on_test_stop is blocked in
\* kill(), the sampler it is killing wakes only if its timer had fired.
Wake(g) ==
    /\ samplers[g].pc = "sleep"
    /\ ~Running
    /\ Len(reads) < MaxTicks
    /\ (stopPc = "killing" /\ g = sampling_greenlet) => due
    /\ samplers' = [samplers EXCEPT ![g] = [@ EXCEPT !.pc = "try"]]
    /\ due' = IF g = sampling_greenlet THEN FALSE ELSE due
    /\ UNCHANGED <<hook, mlflowOn, lifecycle, run_started, sampling_greenlet,
                   buffer, reads, origin, stopPc, handoff, stopped>>
    /\ UNCHANGED nonCollVars

\* the try block with the exception left to propagate out of _sample_loop
SampleUncaught(g, ok) ==
    /\ samplers[g].pc = "try"
    /\ reads' = Append(reads, [g |-> g, k |-> samplers[g].ticks, ok |-> ok,
                                late |-> stopPc = "killing"])
    /\ IF ok
         THEN /\ buffer' = Append(buffer, [second |-> samplers[g].second])
              /\ origin' = Append(origin, [g |-> g, k |-> samplers[g].ticks])
         ELSE UNCHANGED <<buffer, origin>>
    /\ samplers' = [samplers EXCEPT ![g] =
            [@ EXCEPT !.pc = IF ok THEN "incr" ELSE "crashed", !.got = ok,
                      !.ticks = @ + 1]]
    /\ UNCHANGED <<hook, mlflowOn, lifecycle, run_started, sampling_greenlet,
                   stopPc, due, handoff, stopped>>
    /\ UNCHANGED nonCollVars

\* the try block writing its sample over the latest one
SampleOverwrite(g, ok) ==
    /\ samplers[g].pc = "try"
    /\ reads' = Append(reads, [g |-> g, k |-> samplers[g].ticks, ok |-> ok,
                                late |-> stopPc = "killing"])
    /\ IF ok /\ buffer = << >>
         THEN /\ buffer' = Append(buffer, [second |-> samplers[g].second])
              /\ origin' = Append(origin, [g |-> g, k |-> samplers[g].ticks])
       ELSE IF ok
         THEN /\ buffer' = [buffer EXCEPT ![Len(buffer)] = [second |-> samplers[g].second]]
              /\ origin' = [origin EXCEPT ![Len(origin)] = [g |-> g, k |-> samplers[g].ticks]]
         ELSE UNCHANGED <<buffer, origin>>
    /\ samplers' = [samplers EXCEPT ![g] =
            [@ EXCEPT !.pc = "incr", !.got = ok, !.ticks = @ + 1]]
    /\ UNCHANGED <<hook, mlflowOn, lifecycle, run_started, sampling_greenlet,
                   stopPc, due, handoff, stopped>>
    /\ UNCHANGED nonCollVars

\* the try block of _sample_loop: read runner and stats and append the
\* sample; when a read raises (ok = FALSE) nothing is appended and the
\* exception is passed over
Sample(g, ok) ==
    /\ samplers[g].pc = "try"
    /\ reads' = Append(reads, [g |-> g, k |-> samplers[g].ticks, ok |-> ok,
                                late |-> stopPc = "killing"])
    /\ IF ok
         THEN /\ buffer' = Append(buffer, [second |-> samplers[g].second])
              /\ origin' = Append(origin, [g |-> g, k |-> samplers[g].ticks])
         ELSE UNCHANGED <<buffer, origin>>
    /\ samplers' = [samplers EXCEPT ![g] =
            [@ EXCEPT !.pc = "incr", !.got = ok, !.ticks = @ + 1]]
    /\ UNCHANGED <<hook, mlflowOn, lifecycle, run_started, sampling_greenlet,
                   stopPc, due, handoff, stopped>>
    /\ UNCHANGED nonCollVars

\* second += 1 placed inside the try block, after the append
IncrOnSuccess(g) ==
    /\ samplers[g].pc = "incr"
    /\ samplers' = [samplers EXCEPT ![g] =
            [@ EXCEPT !.pc = "sleep",
                      !.second = IF samplers[g].got THEN @ + 1 ELSE @]]
    /\ UNCHANGED <<hook, mlflowOn, lifecycle, run_started, sampling_greenlet,
                   buffer, reads, origin, stopPc, due, handoff, stopped>>
    /\ UNCHANGED nonCollVars

\* second += 1, then the loop goes back to gevent.sleep(1)
Incr(g) ==
    /\ samplers[g].pc = "incr"
    /\ samplers' = [samplers EXCEPT ![g] =
            [@ EXCEPT !.pc = "sleep", !.second = @ + 1]]
    /\ UNCHANGED <<hook, mlflowOn, lifecycle, run_started, sampling_greenlet,
                   buffer, reads, origin, stopPc, due, handoff, stopped>>
    /\ UNCHANGED nonCollVars

\* locust fires test_stop when a run ends; a second delivery may follow
StopFired == lifecycle \in {"running", "stopped"}

\* the rest of _on_test_stop after the kill: _sampling_greenlet = None, then
\* the buffer is passed on: metrics_collector dumps it to
\* timeseries_metrics.json; mlflow_hooks returns early unless _run_started
\* and else turns it into the metrics it logs
FinishStop ==
    /\ sampling_greenlet' = 0
    /\ handoff' = IF hook = "mlflow_hooks" /\ ~run_started THEN handoff ELSE buffer
    /\ stopped' = TRUE
    /\ lifecycle' = "stopped"
    /\ stopPc' = "idle"

\* _on_test_stop that drops its reference without killing the greenlet
OnTestStopDrop ==
    /\ HandlersMayRun
    /\ StopFired
    /\ sampling_greenlet # 0
    /\ FinishStop
    /\ UNCHANGED <<hook, mlflowOn, run_started, samplers, buffer, reads, origin, due>>
    /\ UNCHANGED nonCollVars

\* _on_test_stop with a sampler: _sampling_greenlet.kill() blocks the handler
\* until the greenlet is dead
OnTestStopKill ==
    /\ HandlersMayRun
    /\ StopFired
    /\ sampling_greenlet # 0
    /\ stopPc' = "killing"
    /\ due' \in (IF samplers[sampling_greenlet].pc = "sleep" /\ Len(reads) < MaxTicks
                 THEN BOOLEAN ELSE {FALSE})
    /\ UNCHANGED <<hook, mlflowOn, lifecycle, run_started, sampling_greenlet, samplers,
                   buffer, reads, origin, handoff, stopped>>
    /\ UNCHANGED nonCollVars

\* a kill that could land anywhere in the loop
AnyPoint(p) == p \in {"spawned", "sleep", "try", "incr"}

\* where GreenletExit can be raised in the sampler: before it first runs, or
\* in gevent.sleep(1), the only place _sample_loop blocks
AtSwitchPoint(p) == p \in {"spawned", "sleep"}

\* kill() raises GreenletExit in the sampler, which ends _sample_loop
KillDeliver ==
    /\ stopPc = "killing"
    /\ ~due
    /\ AtSwitchPoint(samplers[sampling_greenlet].pc)
    /\ samplers' = [samplers EXCEPT ![sampling_greenlet] =
            [@ EXCEPT !.pc = "dead", !.killedAt = samplers[sampling_greenlet].pc]]
    /\ UNCHANGED <<hook, mlflowOn, lifecycle, run_started, sampling_greenlet,
                   buffer, reads, origin, stopPc, due, handoff, stopped>>
    /\ UNCHANGED nonCollVars

\* kill() returns once the greenlet is dead, and _on_test_stop goes on
OnTestStopFinish ==
    /\ stopPc = "killing"
    /\ samplers[sampling_greenlet].pc \in {"dead", "crashed"}
    /\ FinishStop
    /\ UNCHANGED <<hook, mlflowOn, run_started, samplers, buffer, reads, origin, due>>
    /\ UNCHANGED nonCollVars

\* _on_test_stop when _sampling_greenlet is None
OnTestStopIdle ==
    /\ HandlersMayRun
    /\ StopFired
    /\ sampling_greenlet = 0
    /\ FinishStop
    /\ UNCHANGED <<hook, mlflowOn, run_started, samplers, buffer, reads, origin, due>>
    /\ UNCHANGED nonCollVars

NextCollector ==
    \/ OnTestStart
    \/ \E g \in Greenlets : SamplerStart(g)
    \/ \E g \in Greenlets : Wake(g)
    \/ \E g \in Greenlets : \E ok \in BOOLEAN : Sample(g, ok)
    \/ \E g \in Greenlets : Incr(g)
    \/ OnTestStopKill
    \/ KillDeliver
    \/ OnTestStopFinish
    \/ OnTestStopIdle

CollectorSpec == InitCollector /\ [][NextCollector]_vars

(***************************************************************************)
(* Claims on the sampler, checked under CollectorSpec.                     *)
(***************************************************************************)
\* C7: once an _on_test_stop has completed, no sample is appended to the
\* buffer any more: the buffer stays what that stop handed off.
C7_BufferFinalAfterStop == stopped => handoff = buffer

C7_Witness ==
    /\ stopped
    /\ lifecycle = "running"
    /\ Len(buffer) >= 2
    /\ handoff = buffer

\* C8: stop never cuts a tick short.  The kill lands only where the sampler
\* waits (before its first run, or in gevent.sleep), so a tick under way
\* when stop is signaled runs through its append and step increment, and
\* once the stop is over no sampler is left to start a new tick.
C8_KilledOnlyBetweenTicks ==
    /\ \A g \in Greenlets :
          samplers[g].pc = "dead" =>
              /\ samplers[g].killedAt \in {"spawned", "sleep"}
              /\ samplers[g].ticks = samplers[g].second
    /\ \A n \in 1..Len(reads) :
          (reads[n].late /\ reads[n].ok) =>
              \E i \in 1..Len(origin) :
                  origin[i] = [g |-> reads[n].g, k |-> reads[n].k]
    /\ stopped => \A g \in Greenlets : samplers[g].pc \in {"dead", "crashed"}

\* a tick was under way when stop was signaled: it appended its sample, and
\* the sampler was killed in the sleep that followed
C8_Witness ==
    \E g \in Greenlets :
        /\ samplers[g].pc = "dead"
        /\ samplers[g].killedAt = "sleep"
        /\ Len(reads) >= 2
        /\ reads[Len(reads)].late
        /\ reads[Len(reads)].ok
        /\ origin[Len(origin)].k = reads[Len(reads)].k
        /\ buffer[Len(buffer)].second = samplers[g].second - 1

\* C9: the step counter goes up by exactly 1 per tick, failed reads
\* included: the sample appended by a greenlet's k-th tick carries step k.
C9_StepCountsEveryTick ==
    /\ \A i \in 1..Len(buffer) : buffer[i].second = origin[i].k
    /\ \A g \in Greenlets :
          samplers[g].second + (IF samplers[g].pc = "incr" THEN 1 ELSE 0)
            = samplers[g].ticks

C9_Witness ==
    /\ Len(reads) = 3
    /\ ~reads[1].ok
    /\ reads[3].ok
    /\ buffer[Len(buffer)].second = 2

ReadOk(r) == r.ok
OkTicks == SelectSeq(reads, ReadOk)

\* C10: a failed read is passed over: that tick appends nothing, the sampler
\* does not end, and every tick whose read succeeds appends its sample, so
\* the buffer holds one sample per successful read, in order.
C10_FailedReadSkipped ==
    /\ \A g \in Greenlets : samplers[g].pc # "crashed"
    /\ Len(buffer) = Len(OkTicks)
    /\ Len(origin) = Len(OkTicks)
    /\ \A i \in 1..Len(origin) :
          origin[i].g = OkTicks[i].g /\ origin[i].k = OkTicks[i].k

C10_Witness ==
    /\ Len(reads) >= 2
    /\ ~reads[1].ok
    /\ reads[2].ok
    /\ Len(buffer) = 1
    /\ \E g \in Greenlets : samplers[g].pc = "sleep"

(***************************************************************************)
(* scripts/mlflow_logger.py main, and the batched time-series logging of   *)
(* mlflow_hooks._on_test_stop: read the sources, take the export time,     *)
(* append the points source by source, open the run, submit the chunks.    *)
(***************************************************************************)
MaxSamples == 2     \* a per-step source holds at most MaxSamples records
MaxClock == 2       \* the clock advances at most MaxClock times in an export

Sites == {"mlflow_logger", "mlflow_hooks"}

\* a sample as _sample_loop appends it
TSample(second) ==
    [second |-> second, active_users |-> 1, target_users |-> 2,
     requests_per_sec |-> 3, failures_per_sec |-> 0,
     avg_response_time_ms |-> 4, total_requests |-> second + 1,
     total_failures |-> second % 2, fail_ratio |-> second % 2]

\* a line of hpa-metrics.jsonl
HpaLine(ok, sample, present) ==
    [ok |-> ok, sample |-> sample, pod_count |-> 1, avg_memory_ki |-> 2,
     avg_cpu_n |-> 3,
     hpa |-> [present |-> present, currentReplicas |-> 1, desiredReplicas |-> 2,
              currentCPUPct |-> 50, currentMemoryPct |-> 60]]

McpRow(tool_calls) ==
    [response_time |-> 10, mcp_call_count |-> tool_calls, input_tokens |-> 5,
     output_tokens |-> 7, total_tokens |-> 12]

TraceRow(step, duration, tool_calls) ==
    [step |-> step, request_duration_ms |-> duration, tool_calls |-> tool_calls]

\* the strictly increasing sequences over S of at most n entries
IncSeqs(S, n) ==
    {q \in SeqsUpTo(S, n) : \A i \in 1..Len(q) : \A j \in 1..Len(q) : i < j => q[i] < q[j]}

SampleSeqs == {[i \in 1..Len(q) |-> TSample(q[i])] : q \in IncSeqs(0..MaxSamples, MaxSamples)}

\* n samples, one for every second
Series(n) == [i \in 1..n |-> TSample(i - 1)]

LocustFiles == {NoFile, File(<<Named("locust/total_requests", 9)>>)}
SummaryFiles == {NoFile, BadFile, File(<<Named("total_requests", 9)>>)}
McpFiles == {NoFile, File(<< >>), File(<<McpRow(1), McpRow(2)>>)}
TimeseriesFiles == {NoFile, BadFile} \cup {File(q) : q \in SampleSeqs}
HpaFiles ==
    {NoFile} \cup
    {File(q) : q \in SeqsUpTo({HpaLine(FALSE, 0, FALSE), HpaLine(TRUE, 0, FALSE),
                               HpaLine(TRUE, 1, TRUE)}, MaxSamples)}

Sections == {"aggregate_metrics", "per_request_metrics"}

SomeAggregates == <<Named("trace/avg_total_request_duration_ms", 5)>>

TraceRows ==
    {[i \in 1..Len(q) |-> TraceRow(q[i], (q[i] % 2) * 5, 2 - q[i])] :
        q \in IncSeqs(0..MaxSamples, MaxSamples)}

\* trace_metrics.json is absent, unreadable, or holds no metrics
NoTraceFiles ==
    {NoTraceFile, BadTraceFile, TraceJson({}, << >>, << >>),
     TraceJson(Sections, << >>, << >>)}

\* trace_metrics.json with metrics in it
SomeTraceFiles ==
    {TraceJson({"aggregate_metrics"}, SomeAggregates, << >>)}
    \cup {TraceJson(Sections, SomeAggregates, q) : q \in TraceRows \ {<< >>}}

TraceFiles == NoTraceFiles \cup SomeTraceFiles

FullDir ==
    [locust |-> File(<<Named("locust/total_requests", 9)>>),
     summary |-> File(<<Named("total_requests", 9)>>),
     timeseries |-> File(Series(1)),
     mcp |-> File(<<McpRow(1), McpRow(2)>>),
     hpa |-> File(<<HpaLine(TRUE, 0, TRUE)>>),
     trace |-> TraceJson(Sections, SomeAggregates, <<TraceRow(0, 5, 2)>>)]

\* one source varied at a time, the others all absent or all present
VariedDirs(d) ==
    {[d EXCEPT !.locust = f] : f \in LocustFiles}
    \cup {[d EXCEPT !.summary = f] : f \in SummaryFiles}
    \cup {[d EXCEPT !.timeseries = f] : f \in TimeseriesFiles}
    \cup {[d EXCEPT !.mcp = f] : f \in McpFiles}
    \cup {[d EXCEPT !.hpa = f] : f \in HpaFiles}
    \cup {[d EXCEPT !.trace = f] : f \in TraceFiles}

PerSample == Len(TimeseriesKeys)

\* directories whose points fill whole batches, or miss or pass that by one
BigDirs ==
    UNION {{[EmptyDir EXCEPT !.timeseries = File(Series(n))],
            [EmptyDir EXCEPT !.timeseries = File(Series(n)),
                             !.summary = File(<<Named("total_requests", 9)>>)],
            [EmptyDir EXCEPT !.timeseries = File(Series(n - 1)),
                             !.hpa = File(<<HpaLine(TRUE, 0, TRUE)>>)]} :
           n \in {MAX_BATCH_SIZE \div PerSample, (2 * MAX_BATCH_SIZE) \div PerSample}}

ExportDirs == VariedDirs(EmptyDir) \cup VariedDirs(FullDir) \cup BigDirs

\* _timeseries_buffer of mlflow_hooks
HookBuffers ==
    {[EmptyDir EXCEPT !.timeseries = File(q)] :
        q \in SampleSeqs \cup {Series(MAX_BATCH_SIZE \div PerSample),
                               Series((2 * MAX_BATCH_SIZE) \div PerSample)}}

Exp(x) == exporter[x]

StartedExporter(site, arn, d) ==
    [OffExporter EXCEPT !.site = site, !.pc = "start", !.arn = arn, !.dir0 = d]

InitExport ==
    /\ SchedIdle /\ FollowIdle /\ CollectorIdle /\ StatsIdle /\ TraceIdle /\ RegIdle
    /\ \E site \in Sites :
        \E d \in (IF site = "mlflow_logger" THEN ExportDirs ELSE HookBuffers) :
          \E arn \in (IF site = "mlflow_logger" THEN BOOLEAN ELSE {TRUE}) :
            /\ results_dir = [x \in Exports |-> IF x = 1 THEN d ELSE EmptyDir]
            /\ exporter = [x \in Exports |->
                    IF x = 1 THEN StartedExporter(site, arn, d) ELSE OffExporter]
    /\ backend = [x \in Exports |-> << >>]
    /\ clock = 1

\* an exception main does not catch ends the script; mlflow_hooks catches it
\* and prints a warning
Failed(e, error) ==
    [e EXCEPT !.pc = IF e.site = "mlflow_logger" THEN "crashed" ELSE "warned",
              !.error = error]

\* main up to the MLFLOW_TRACKING_ARN check: the readers
ReadResults(x) ==
    /\ Exp(x).pc = "start"
    /\ LET e == Exp(x)
           r == ReadAll(e.site, results_dir[x])
       IN  exporter' = [exporter EXCEPT ![x] =
                IF r.raised THEN Failed(e, "read")
                ELSE [e EXCEPT !.loaded = r.loaded,
                               !.pc = IF ~e.arn THEN "returned"
                                      ELSE IF e.site = "mlflow_logger" THEN "stamp"
                                      ELSE "run"]]
    /\ UNCHANGED <<results_dir, backend, clock>>
    /\ UNCHANGED nonExpVars

\* now_ms = int(time.time() * 1000); timestamp_ms in mlflow_hooks
Stamp(x) ==
    /\ Exp(x).pc = "stamp"
    /\ exporter' = [exporter EXCEPT ![x] =
            [@ EXCEPT !.now_ms = clock, !.pc = "build", !.k = 1]]
    /\ UNCHANGED <<results_dir, backend, clock>>
    /\ UNCHANGED nonExpVars

AfterBuild(e) ==
    IF e.k < Len(Sources(e.site)) THEN "build"
    ELSE IF e.site = "mlflow_logger" THEN "run" ELSE "chunks"

\* a loop that reads the time again for every source
AppendSourceNow(x) ==
    /\ Exp(x).pc = "build"
    /\ LET e == Exp(x)
           points == Emitted(Sources(e.site)[e.k], e.loaded, clock)
       IN  exporter' = [exporter EXCEPT ![x] =
                [e EXCEPT !.batch_metrics = @ \o MapSeq(points, EmitM),
                          !.from = @ \o MapSeq(points, EmitFrom),
                          !.k = @ + 1, !.pc = AfterBuild(e)]]
    /\ UNCHANGED <<results_dir, backend, clock>>
    /\ UNCHANGED nonExpVars

StepSeen(batch, m) == \E i \in 1..Len(batch) : batch[i].step = m.step
Fresh(batch, points) ==
    SelectSeq(points, LAMBDA p : ~StepSeen(batch, p.m))

\* a loop that keeps one source's points per step
AppendSourceMerged(x) ==
    /\ Exp(x).pc = "build"
    /\ LET e == Exp(x)
           points == Fresh(e.batch_metrics,
                           Emitted(Sources(e.site)[e.k], e.loaded, e.now_ms))
       IN  exporter' = [exporter EXCEPT ![x] =
                [e EXCEPT !.batch_metrics = @ \o MapSeq(points, EmitM),
                          !.from = @ \o MapSeq(points, EmitFrom),
                          !.k = @ + 1, !.pc = AfterBuild(e)]]
    /\ UNCHANGED <<results_dir, backend, clock>>
    /\ UNCHANGED nonExpVars

\* one of main's loops over a source: its points are appended to
\* batch_metrics (ts_metrics in mlflow_hooks), in the source's order
AppendSource(x) ==
    /\ Exp(x).pc = "build"
    /\ LET e == Exp(x)
           points == Emitted(Sources(e.site)[e.k], e.loaded, e.now_ms)
       IN  exporter' = [exporter EXCEPT ![x] =
                [e EXCEPT !.batch_metrics = @ \o MapSeq(points, EmitM),
                          !.from = @ \o MapSeq(points, EmitFrom),
                          !.k = @ + 1, !.pc = AfterBuild(e)]]
    /\ UNCHANGED <<results_dir, backend, clock>>
    /\ UNCHANGED nonExpVars

ParamsCall == [kind |-> "params", metrics |-> << >>]
MetricsCall(chunk) == [kind |-> "metrics", metrics |-> chunk]

\* mlflow.start_run and what is logged before the chunks: main's log_batch of
\* params and tags; the log_param and log_metric calls of mlflow_hooks, which
\* goes on to the time series if _timeseries_buffer is not empty
StartRun(x, ok) ==
    /\ Exp(x).pc = "run"
    /\ LET e == Exp(x)
       IN  IF ~ok
           THEN exporter' = [exporter EXCEPT ![x] = Failed(e, "run")]
                /\ UNCHANGED backend
           ELSE IF e.site = "mlflow_logger"
           THEN exporter' = [exporter EXCEPT ![x] = [e EXCEPT !.pc = "chunks"]]
                /\ backend' = [backend EXCEPT ![x] = Append(@, ParamsCall)]
           ELSE exporter' = [exporter EXCEPT ![x] =
                    [e EXCEPT !.pc = IF e.loaded.timeseries # << >>
                                     THEN "stamp" ELSE "done"]]
                /\ UNCHANGED backend
    /\ UNCHANGED <<results_dir, clock>>
    /\ UNCHANGED nonExpVars

\* a failed chunk that takes the earlier chunks of the run back
LogChunkRollback(x, ok) ==
    /\ Exp(x).pc = "chunks"
    /\ Exp(x).i < Len(Exp(x).batch_metrics)
    /\ LET e == Exp(x)
           chunk == Slice(e.batch_metrics, e.i)
       IN  IF ok
           THEN /\ backend' = [backend EXCEPT ![x] = Append(@, MetricsCall(chunk))]
                /\ exporter' = [exporter EXCEPT ![x] =
                        [e EXCEPT !.i = @ + MAX_BATCH_SIZE]]
           ELSE /\ backend' = [backend EXCEPT ![x] = << >>]
                /\ exporter' = [exporter EXCEPT ![x] =
                        [Failed(e, "chunk") EXCEPT
                            !.failed_at = (e.i \div MAX_BATCH_SIZE) + 1]]
    /\ UNCHANGED <<results_dir, clock>>
    /\ UNCHANGED nonExpVars

\* one pass of "for i in range(0, len(metrics), MAX_BATCH_SIZE)":
\* client.log_batch(metrics=metrics[i:i + MAX_BATCH_SIZE]), which may raise
LogChunk(x, ok) ==
    /\ Exp(x).pc = "chunks"
    /\ Exp(x).i < Len(Exp(x).batch_metrics)
    /\ LET e == Exp(x)
           chunk == Slice(e.batch_metrics, e.i)
       IN  IF ok
           THEN /\ backend' = [backend EXCEPT ![x] = Append(@, MetricsCall(chunk))]
                /\ exporter' = [exporter EXCEPT ![x] =
                        [e EXCEPT !.i = @ + MAX_BATCH_SIZE]]
           ELSE /\ UNCHANGED backend
                /\ exporter' = [exporter EXCEPT ![x] =
                        [Failed(e, "chunk") EXCEPT
                            !.failed_at = (e.i \div MAX_BATCH_SIZE) + 1]]
    /\ UNCHANGED <<results_dir, clock>>
    /\ UNCHANGED nonExpVars

\* the range is used up: the run is closed
FinishExport(x) ==
    /\ Exp(x).pc = "chunks"
    /\ Exp(x).i >= Len(Exp(x).batch_metrics)
    /\ exporter' = [exporter EXCEPT ![x] = [@ EXCEPT !.pc = "done"]]
    /\ UNCHANGED <<results_dir, backend, clock>>
    /\ UNCHANGED nonExpVars

Exporting(x) == Exp(x).pc \in {"start", "stamp", "build", "run", "chunks"}

\* time passes while an export is under way
ClockTick ==
    /\ \E x \in Exports : Exporting(x)
    /\ clock <= MaxClock
    /\ clock' = clock + 1
    /\ UNCHANGED <<results_dir, exporter, backend>>
    /\ UNCHANGED nonExpVars

ExportStep(x) ==
    \/ ReadResults(x)
    \/ Stamp(x)
    \/ AppendSource(x)
    \/ \E ok \in BOOLEAN : StartRun(x, ok)
    \/ \E ok \in BOOLEAN : LogChunk(x, ok)
    \/ FinishExport(x)

NextExport ==
    \/ \E x \in Exports : ExportStep(x)
    \/ ClockTick

ExportSpec == InitExport /\ [][NextExport]_vars

(***************************************************************************)
(* Claims on the exporter, checked under ExportSpec.                       *)
(***************************************************************************)
IsMetricsCall(call) == call.kind = "metrics"

\* the metrics chunks the tracking server accepted, in submission order
Chunks(x) == Column(SelectSeq(backend[x], IsMetricsCall), "metrics")

\* C11: chunked submission is lossless and order-preserving: every
\* submitted chunk has at most 1000 points, and once all chunks are
\* submitted their concatenation in submission order is the input point
\* sequence, also when its length is 1000 or 2000.
C11_ChunksReproduceInput ==
    \A x \in Exports :
        /\ \A n \in 1..Len(Chunks(x)) : Len(Chunks(x)[n]) <= MAX_BATCH_SIZE
        /\ Exp(x).pc = "done" => Flat(Chunks(x)) = Exp(x).batch_metrics

C11_Witness ==
    /\ Exp(1).pc = "done"
    /\ Len(Exp(1).batch_metrics) = 2 * MAX_BATCH_SIZE
    /\ Len(Chunks(1)) = 2
    /\ Len(Chunks(1)[2]) = MAX_BATCH_SIZE

ChunkFailed(x) == Exp(x).error = "chunk"

\* C12: when the submission of a chunk fails, the chunks submitted before
\* it are still there, each once and in their order (chunk n is the n-th
\* slice of the input), and the local source data is as it was.
C12_EarlierChunksStay ==
    \A x \in Exports :
        ChunkFailed(x) =>
            /\ Len(Chunks(x)) = Exp(x).failed_at - 1
            /\ \A n \in 1..Len(Chunks(x)) :
                  Chunks(x)[n] = SubSeq(Exp(x).batch_metrics,
                                        (n - 1) * MAX_BATCH_SIZE + 1,
                                        n * MAX_BATCH_SIZE)
            /\ results_dir[x] = Exp(x).dir0

C12_Witness ==
    /\ ChunkFailed(1)
    /\ Exp(1).failed_at = 3
    /\ Len(Chunks(1)) = 2
    /\ Len(Flat(Chunks(1))) = 2 * MAX_BATCH_SIZE
    /\ Len(Exp(1).batch_metrics) > 2 * MAX_BATCH_SIZE

\* every source has been appended to batch_metrics
Built(x) == Exp(x).k > Len(Sources(Exp(x).site))

\* the source records of the points of src, in the order of batch_metrics
FromOf(e, src) == SelectSeq(e.from, LAMBDA f : f.src = src)

\* how many of the points of src come from its record rec
Yield(e, src, rec) ==
    LET F == FromOf(e, src)
    IN  Cardinality({i \in 1..Len(F) : F[i].rec = rec})

\* the number of points one trace record yields
TraceYield(r) ==
    (IF r.request_duration_ms > 0 THEN 1 ELSE 0) + (IF r.tool_calls > 0 THEN 1 ELSE 0)

AllSources == {"locust", "summary", "mcp", "trace_agg", "timeseries", "hpa",
               "trace_per_req"}

\* C16: in the emitted sequence the points of each source keep the order
\* of that source's records, and every record of a per-step source has all
\* its points emitted, whatever steps the other sources' points carry.
C16_OrderKeptNothingMerged ==
    \A x \in Exports :
        LET e == Exp(x)
        IN  /\ \A src \in AllSources :
                  LET F == FromOf(e, src)
                  IN  \A i \in 1..(Len(F) - 1) : F[i].rec <= F[i + 1].rec
            /\ Built(x) =>
                  /\ Len(e.batch_metrics) = Len(e.from)
                  /\ LET F == FromOf(e, "timeseries")
                     IN  /\ Len(F) = PerSample * Len(e.loaded.timeseries)
                         /\ \A i \in 1..Len(F) : F[i].rec = ((i - 1) \div PerSample) + 1
                  /\ \A n \in 1..Len(e.loaded.hpa) :
                        Yield(e, "hpa", n) = IF e.loaded.hpa[n].hpa.present THEN 7 ELSE 3
                  /\ \A n \in 1..Len(e.loaded.trace_per_req) :
                        Yield(e, "trace_per_req", n)
                            = TraceYield(e.loaded.trace_per_req[n])

\* a time-series sample, an HPA sample and a trace record of the same step,
\* all with their points in the sequence
C16_Witness ==
    /\ Built(1)
    /\ Exp(1).site = "mlflow_logger"
    /\ \E a \in 1..Len(Exp(1).loaded.timeseries) :
         \E b \in 1..Len(Exp(1).loaded.hpa) :
           \E c \in 1..Len(Exp(1).loaded.trace_per_req) :
              /\ Exp(1).loaded.timeseries[a].second = Exp(1).loaded.hpa[b].sample
              /\ Exp(1).loaded.hpa[b].sample = Exp(1).loaded.trace_per_req[c].step
              /\ Yield(Exp(1), "timeseries", a) = PerSample
              /\ Yield(Exp(1), "hpa", b) = 7
              /\ Yield(Exp(1), "trace_per_req", c) = 2

ScalarSources == {"locust", "summary", "mcp", "trace_agg"}

\* the step of the record a point of a per-step source comes from
OwnStep(e, f) ==
    CASE f.src = "timeseries" -> e.loaded.timeseries[f.rec].second
      [] f.src = "hpa" -> e.loaded.hpa[f.rec].sample
      [] f.src = "trace_per_req" -> e.loaded.trace_per_req[f.rec].step

\* C17: in one export every point carries the one export timestamp; the
\* points of the scalar sources have step 0 and the points of the per-second
\* and per-trace sources have the step of their own sample.
C17_OneTimestampOwnSteps ==
    \A x \in Exports :
        LET e == Exp(x)
        IN  \A i \in 1..Len(e.batch_metrics) :
                /\ e.batch_metrics[i].timestamp = e.now_ms
                /\ e.from[i].src \in ScalarSources => e.batch_metrics[i].step = 0
                /\ e.from[i].src \notin ScalarSources
                      => e.batch_metrics[i].step = OwnStep(e, e.from[i])

\* the clock moved on during the export, and the sequence holds scalar
\* points and points of a later step
C17_Witness ==
    /\ Built(1)
    /\ clock > Exp(1).now_ms
    /\ \E i \in 1..Len(Exp(1).from) : Exp(1).from[i].src \in ScalarSources
    /\ \E i \in 1..Len(Exp(1).from) :
          /\ Exp(1).from[i].src = "timeseries"
          /\ Exp(1).batch_metrics[i].step > 0
    /\ \E i \in 1..Len(Exp(1).from) : Exp(1).from[i].src = "trace_per_req"

(***************************************************************************)
(* ExportPairSpec: main run twice at one clock reading, on two results     *)
(* directories that differ in trace_metrics.json only: the first holds     *)
(* trace metrics, the second has none.                                     *)
(***************************************************************************)
PairDirs ==
    {[locust |-> l, summary |-> s, timeseries |-> t, mcp |-> m, hpa |-> h,
      trace |-> NoTraceFile] :
        l \in {NoFile, FullDir.locust}, s \in {NoFile, FullDir.summary},
        t \in {NoFile, File(Series(MaxSamples))}, m \in {NoFile, FullDir.mcp},
        h \in {NoFile, FullDir.hpa}}

InitExportPair ==
    /\ SchedIdle /\ FollowIdle /\ CollectorIdle /\ StatsIdle /\ TraceIdle /\ RegIdle
    /\ \E d \in PairDirs : \E some \in SomeTraceFiles : \E none \in NoTraceFiles :
        /\ results_dir = [x \in Exports |->
                [d EXCEPT !.trace = IF x = 1 THEN some ELSE none]]
        /\ exporter = [x \in Exports |->
                StartedExporter("mlflow_logger", TRUE,
                                [d EXCEPT !.trace = IF x = 1 THEN some ELSE none])]
    /\ backend = [x \in Exports |-> << >>]
    /\ clock = 1

\* the second export starts when the first is over
Turn(x) == x = 1 \/ ~Exporting(1)

NextExportPair == \E x \in Exports : Turn(x) /\ ExportStep(x)

ExportPairSpec == InitExportPair /\ [][NextExportPair]_vars

TraceSources == {"trace_agg", "trace_per_req"}

\* the points of batch_metrics that come from the sources other than the
\* trace metrics, in their order
OtherPoints(x) ==
    LET e == Exp(x)
        at == SelectSeq([i \in 1..Len(e.from) |-> i],
                        LAMBDA i : e.from[i].src \notin TraceSources)
    IN  [n \in 1..Len(at) |-> e.batch_metrics[at[n]]]

\* C15: without trace metrics (file absent, unreadable, or holding none)
\* the reader returns an empty mapping and an empty list and raises nothing,
\* and the points of the other sources are, in number and content, those of
\* the export of the same directory with trace metrics in it.
C15_NoTraceNoDifference ==
    /\ Exp(2).pc # "start" =>
          /\ Exp(2).error # "read"
          /\ Exp(2).loaded.trace_agg = << >>
          /\ Exp(2).loaded.trace_per_req = << >>
    /\ (Built(1) /\ Built(2)) => OtherPoints(1) = OtherPoints(2)

C15_Witness ==
    /\ Exp(1).pc = "done"
    /\ Exp(2).pc = "done"
    /\ results_dir[2].trace = NoTraceFile
    /\ results_dir[1].hpa # NoFile
    /\ results_dir[1].timeseries # NoFile
    /\ Len(Exp(1).batch_metrics) > Len(Exp(2).batch_metrics)
    /\ Len(Exp(2).batch_metrics) > PerSample
    /\ OtherPoints(1) = Exp(2).batch_metrics

(***************************************************************************)
(* StatsSpec: the values a run collects, and the percentiles the three     *)
(* statistics sites report for them: the summary of metrics_collector, the *)
(* metrics of mlflow_hooks, the trace aggregates of trace_analyzer.        *)
(***************************************************************************)
MaxObs == 5         \* values are added one by one up to MaxObs of them

\* values that round(x, 2) keeps, lowers and raises
StatValues == {Ms(1), Ms(1) + 4, Ms(2) + 6}

\* n, n-1, ..., 1 milliseconds
Descending(n) == [i \in 1..n |-> Ms(n + 1 - i)]

StatInputs == {<< >>, Descending(19), Descending(20), Descending(21), Descending(100)}

InitStats ==
    /\ SchedIdle /\ FollowIdle /\ CollectorIdle /\ ExporterIdle /\ TraceIdle /\ RegIdle
    /\ response_times \in StatInputs
    /\ stats = NoStats

\* _on_request: metrics_buffer[f"{name}_response_time_ms"].append(response_time);
\* in trace_analyzer, one more duration in the list
OnRequest(v) ==
    /\ Len(response_times) < MaxObs
    /\ response_times' = Append(response_times, v)
    /\ UNCHANGED stats
    /\ UNCHANGED nonStatVars

\* the statistics of each site over the values collected so far
ComputeStats ==
    /\ stats' = [done |-> TRUE, input |-> response_times,
                 index |-> IF response_times = << >> THEN NoPercentiles
                           ELSE RankIndices(Len(response_times)),
                 metrics_collector |-> CollectorPercentiles(response_times),
                 mlflow_hooks |-> HooksPercentiles(response_times),
                 trace_analyzer |-> TracePercentiles(response_times)]
    /\ UNCHANGED response_times
    /\ UNCHANGED nonStatVars

NextStats ==
    \/ \E v \in StatValues : OnRequest(v)
    \/ ComputeStats

StatsSpec == InitStats /\ [][NextStats]_vars

(***************************************************************************)
(* Claims on the percentiles, checked under StatsSpec.                     *)
(***************************************************************************)
\* floor(n * num / den)
FloorOf(n, num, den) ==
    CHOOSE k \in 0..n : k * den <= n * num /\ n * num < (k + 1) * den

Below(values, v) == Cardinality({i \in 1..Len(values) : values[i] < v})
UpTo(values, v) == Cardinality({i \in 1..Len(values) : values[i] <= v})

\* the element at index k (from 0) of the ascending-sorted values
ElementAt(values, k) ==
    CHOOSE v \in {values[i] : i \in 1..Len(values)} :
        Below(values, v) <= k /\ k < UpTo(values, v)

Rank(values, num, den) == ElementAt(values, FloorOf(Len(values), num, den))

Reported == stats.done /\ stats.input # << >>

\* C13 as claimed: each percentile of the summary path is the element at
\* index floor(n*p) of the ascending-sorted input, p in {0.50, 0.95, 0.99}.
C13_AsClaimed ==
    Reported =>
        \A site \in {"metrics_collector", "mlflow_hooks"} :
            /\ stats[site].p50 = Rank(stats.input, 50, 100)
            /\ stats[site].p95 = Rank(stats.input, 95, 100)
            /\ stats[site].p99 = Rank(stats.input, 99, 100)

\* C13 amended: each percentile of the summary path is the element at index
\* floor(n*p) of the ascending-sorted input, which mlflow_hooks logs as it is
\* and metrics_collector writes rounded to two decimals; for the input
\* 1..100 both give p50 = 51, p95 = 96, p99 = 100.
C13_RankElementRoundedInSummary ==
    Reported =>
        /\ stats.mlflow_hooks.p50 = Rank(stats.input, 50, 100)
        /\ stats.mlflow_hooks.p95 = Rank(stats.input, 95, 100)
        /\ stats.mlflow_hooks.p99 = Rank(stats.input, 99, 100)
        /\ stats.metrics_collector.p50 = Round2(Rank(stats.input, 50, 100))
        /\ stats.metrics_collector.p95 = Round2(Rank(stats.input, 95, 100))
        /\ stats.metrics_collector.p99 = Round2(Rank(stats.input, 99, 100))
        /\ Len(stats.input) = 100 =>
              /\ stats.mlflow_hooks.p50 = Ms(51)
              /\ stats.mlflow_hooks.p95 = Ms(96)
              /\ stats.mlflow_hooks.p99 = Ms(100)
              /\ stats.metrics_collector.p50 = Ms(51)
              /\ stats.metrics_collector.p95 = Ms(96)
              /\ stats.metrics_collector.p99 = Ms(100)

C13_Witness ==
    /\ stats.done
    /\ stats.input = Descending(100)
    /\ stats.metrics_collector.has
    /\ stats.mlflow_hooks.p50 = Ms(51)
    /\ stats.mlflow_hooks.p95 = Ms(96)
    /\ stats.metrics_collector.p99 = Ms(100)

SmallInput == Reported /\ Len(stats.input) < 20

\* C14 as claimed: with fewer than 20 samples every reported percentile
\* equals the maximum observed value, in the summary path and in the
\* trace-aggregate path.
C14_AsClaimed ==
    SmallInput =>
        LET top == SeqMax(stats.input)
        IN  /\ \A site \in {"metrics_collector", "mlflow_hooks"} :
                  /\ stats[site].p50 = top
                  /\ stats[site].p95 = top
                  /\ stats[site].p99 = top
            /\ stats.trace_analyzer.p50 = Q(top, 1)
            /\ stats.trace_analyzer.p95 = Q(top, 1)

\* C14 amended: with fewer than 20 samples the reported p95, and the p99 of
\* the summary path, is the maximum observed value (metrics_collector
\* writes it rounded to two decimals), in the summary path and in the
\* trace-aggregate path; the p50 is the element at sorted index floor(n/2),
\* respectively the median.
C14_P95IsMaxBelowTwenty ==
    SmallInput =>
        LET top == SeqMax(stats.input)
        IN  /\ stats.mlflow_hooks.p95 = top
            /\ stats.mlflow_hooks.p99 = top
            /\ stats.metrics_collector.p95 = Round2(top)
            /\ stats.metrics_collector.p99 = Round2(top)
            /\ stats.trace_analyzer.p95 = Q(top, 1)
            /\ stats.mlflow_hooks.p50 = Rank(stats.input, 50, 100)
            /\ stats.trace_analyzer.p50 = Median(stats.input)

\* five values, the largest of them reported as p95 by every site, and a
\* smaller one as p50
C14_Witness ==
    /\ stats.done
    /\ Len(stats.input) = 5
    /\ stats.mlflow_hooks.p95 = SeqMax(stats.input)
    /\ stats.trace_analyzer.p95 = Q(SeqMax(stats.input), 1)
    /\ stats.metrics_collector.p95 = Round2(SeqMax(stats.input))
    /\ stats.mlflow_hooks.p50 < SeqMax(stats.input)

(***************************************************************************)
(* TraceSpec: trace_analyzer.main.  The timestamp files, the answer of the *)
(* search and the answer of each detail fetch are the trace store's and    *)
(* the pipeline's to choose.                                               *)
(***************************************************************************)
MaxTraces == 2      \* the search returns at most MaxTraces summaries
MaxSpans == 2       \* a trace holds at most MaxSpans spans

\* test_start_epoch and test_end_epoch: not there, holding integers, or
\* there with text that int() rejects
StampStates == {"missing", "valid", "garbled"}

\* the summaries of a search result: the n-th has traceID n, or none ("")
SummaryLists ==
    UNION {[1..k -> {0}] \cup {[n \in 1..k |-> IF n \in S THEN n ELSE 0] : S \in SUBSET (1..k)} :
           k \in 0..MaxTraces}

Spans ==
    {Span(<<"/v1/responses">>, 1, 6),
     Span(<<"mcp", "invoke_tool">>, 2, 5),
     Span(<<"GET", "/health">>, 1, 3)}

\* what fetch_trace_detail returns: None after an exception, else the JSON
\* document, with the spans extract_spans finds in it
FetchFailed == [outcome |-> "failed", spans |-> << >>]
EmptyDetail == [outcome |-> "empty", spans |-> << >>]
Detail(spans) == [outcome |-> "ok", spans |-> spans]

Details ==
    {FetchFailed, EmptyDetail} \cup {Detail(q) : q \in SeqsUpTo(Spans, MaxSpans)}

\* the content of the timestamp files of a run, in epoch seconds
Windows == {[start |-> 1000, end |-> 1060]}

\* the command lines: --search-window-buffer left out, or given as 30
Argvs == {NoOption, [given |-> TRUE, value |-> 30]}

\* the default of --search-window-buffer
DefaultSearchWindowBuffer == 120

\* parse_args
ParseArgs(argv) ==
    [search_window_buffer |->
        IF argv.given THEN argv.value ELSE DefaultSearchWindowBuffer]

TempoStates ==
    {[stamps |-> st, start |-> w.start, end |-> w.end, argv |-> a] :
        st \in {"valid"}, w \in Windows, a \in Argvs}
    \cup {[NoTempo EXCEPT !.stamps = st, !.argv = a] :
            st \in StampStates \ {"valid"}, a \in Argvs}

InitTrace ==
    /\ SchedIdle /\ FollowIdle /\ CollectorIdle /\ ExporterIdle /\ StatsIdle /\ RegIdle
    /\ tempo \in TempoStates
    /\ analyzer = [OffAnalyzer EXCEPT
            !.pc = "start",
            !.search_window_buffer = ParseArgs(tempo.argv).search_window_buffer]
    /\ trace_file = NoOutput

\* read_test_timestamps and the "if start is None" branch of main
ReadTestTimestamps ==
    /\ analyzer.pc = "start"
    /\ CASE tempo.stamps = "missing" ->
                /\ trace_file' = EmptyOutput
                /\ analyzer' = [analyzer EXCEPT !.pc = "done"]
         [] tempo.stamps = "garbled" ->
                /\ analyzer' = [analyzer EXCEPT !.pc = "crashed"]
                /\ UNCHANGED trace_file
         [] tempo.stamps = "valid" ->
                /\ analyzer' = [analyzer EXCEPT !.pc = "sleep",
                                                !.start = tempo.start,
                                                !.end = tempo.end]
                /\ UNCHANGED trace_file
    /\ UNCHANGED tempo
    /\ UNCHANGED nonTraceVars

\* time.sleep(15)
GracePeriod ==
    /\ analyzer.pc = "sleep"
    /\ analyzer' = [analyzer EXCEPT !.pc = "search", !.waited = TRUE]
    /\ UNCHANGED <<tempo, trace_file>>
    /\ UNCHANGED nonTraceVars

\* the window searched without the buffer
SearchParamsNoBuffer(start, end, width) ==
    [issued |-> TRUE, start |-> start, end |-> end]

\* search_traces: params = {"start": start - buffer, "end": end + buffer}
SearchParams(start, end, width) ==
    [issued |-> TRUE, start |-> start - width, end |-> end + width]

\* search_traces, which returns [] after any exception, and the
\* "if not summaries" branch of main
SearchTraces(ok, found) ==
    /\ analyzer.pc = "search"
    /\ LET summaries == IF ok THEN found ELSE << >>
           query == SearchParams(analyzer.start, analyzer.end,
                                 analyzer.search_window_buffer)
       IN  IF summaries = << >>
           THEN /\ trace_file' = EmptyOutput
                /\ analyzer' = [analyzer EXCEPT !.pc = "done", !.query = query]
           ELSE /\ analyzer' = [analyzer EXCEPT !.pc = "loop", !.query = query,
                                                !.summaries = summaries]
                /\ UNCHANGED trace_file
    /\ UNCHANGED tempo
    /\ UNCHANGED nonTraceVars

\* analyze_spans(spans) with trace_id and step added
\* every record numbered 0
RecordStepZero(spans, tid, i) ==
    LET m == AnalyzeSpans(spans)
    IN  [tool_call_count |-> m.tool_call_count,
         request_duration_ms |-> m.request_duration_ms,
         inference_durations_ms |-> m.inference_durations_ms,
         list_mcp_tools_durations_ms |-> m.list_mcp_tools_durations_ms,
         invoke_mcp_tool_durations_ms |-> m.invoke_mcp_tool_durations_ms,
         trace_id |-> tid, step |-> 0]

Record(spans, tid, i) ==
    LET m == AnalyzeSpans(spans)
    IN  [tool_call_count |-> m.tool_call_count,
         request_duration_ms |-> m.request_duration_ms,
         inference_durations_ms |-> m.inference_durations_ms,
         list_mcp_tools_durations_ms |-> m.list_mcp_tools_durations_ms,
         invoke_mcp_tool_durations_ms |-> m.invoke_mcp_tool_durations_ms,
         trace_id |-> tid, step |-> i]

NoId == [outcome |-> "no_id", spans |-> << >>]

\* a loop that stops at the first failed fetch
ProcessTraceAbort(detail) ==
    /\ analyzer.pc = "loop"
    /\ analyzer.i < Len(analyzer.summaries)
    /\ LET i == analyzer.i
           tid == analyzer.summaries[i + 1]
       IN  IF tid = 0
           THEN /\ detail = FetchFailed
                /\ analyzer' = [analyzer EXCEPT !.i = i + 1,
                                                !.fetched = Append(@, NoId)]
           ELSE IF detail.outcome # "ok"
           THEN analyzer' = [analyzer EXCEPT !.i = Len(analyzer.summaries),
                                             !.fetched = Append(@, detail)]
           ELSE analyzer' = [analyzer EXCEPT
                    !.i = i + 1,
                    !.fetched = Append(@, detail),
                    !.raw_traces = @ + 1,
                    !.per_request = IF detail.spans # << >>
                                    THEN Append(@, Record(detail.spans, tid, i))
                                    ELSE @]
    /\ UNCHANGED <<tempo, trace_file>>
    /\ UNCHANGED nonTraceVars

\* a loop that keeps a record only for a trace with a matched span
ProcessTraceMatched(detail) ==
    /\ analyzer.pc = "loop"
    /\ analyzer.i < Len(analyzer.summaries)
    /\ LET i == analyzer.i
           tid == analyzer.summaries[i + 1]
       IN  IF tid = 0
           THEN /\ detail = FetchFailed
                /\ analyzer' = [analyzer EXCEPT !.i = i + 1,
                                                !.fetched = Append(@, NoId)]
           ELSE IF detail.outcome # "ok"
           THEN analyzer' = [analyzer EXCEPT !.i = i + 1,
                                             !.fetched = Append(@, detail)]
           ELSE analyzer' = [analyzer EXCEPT
                    !.i = i + 1,
                    !.fetched = Append(@, detail),
                    !.raw_traces = @ + 1,
                    !.per_request =
                        IF \E n \in 1..Len(detail.spans) : Matched(detail.spans[n])
                        THEN Append(@, Record(detail.spans, tid, i))
                        ELSE @]
    /\ UNCHANGED <<tempo, trace_file>>
    /\ UNCHANGED nonTraceVars

\* one pass of "for i, summary in enumerate(summaries)": skip a summary
\* without traceID, fetch the detail and skip the trace when there is none,
\* else count the raw trace and, if it has spans, append its record
ProcessTrace(detail) ==
    /\ analyzer.pc = "loop"
    /\ analyzer.i < Len(analyzer.summaries)
    /\ LET i == analyzer.i
           tid == analyzer.summaries[i + 1]
       IN  IF tid = 0
           THEN /\ detail = FetchFailed
                /\ analyzer' = [analyzer EXCEPT !.i = i + 1,
                                                !.fetched = Append(@, NoId)]
           ELSE IF detail.outcome # "ok"
           THEN analyzer' = [analyzer EXCEPT !.i = i + 1,
                                             !.fetched = Append(@, detail)]
           ELSE analyzer' = [analyzer EXCEPT
                    !.i = i + 1,
                    !.fetched = Append(@, detail),
                    !.raw_traces = @ + 1,
                    !.per_request = IF detail.spans # << >>
                                    THEN Append(@, Record(detail.spans, tid, i))
                                    ELSE @]
    /\ UNCHANGED <<tempo, trace_file>>
    /\ UNCHANGED nonTraceVars

\* after the loop: compute_aggregates and trace_metrics.json
WriteOutput ==
    /\ analyzer.pc = "loop"
    /\ analyzer.i >= Len(analyzer.summaries)
    /\ trace_file' = Output(Len(analyzer.per_request),
                            ComputeAggregates(analyzer.per_request),
                            PerRequestOut(analyzer.per_request))
    /\ analyzer' = [analyzer EXCEPT !.pc = "done"]
    /\ UNCHANGED tempo
    /\ UNCHANGED nonTraceVars

NextTrace ==
    \/ ReadTestTimestamps
    \/ GracePeriod
    \/ \E ok \in BOOLEAN :
         \E found \in (IF ok THEN SummaryLists ELSE {<< >>}) : SearchTraces(ok, found)
    \/ \E detail \in Details : ProcessTrace(detail)
    \/ WriteOutput

TraceSpec == InitTrace /\ [][NextTrace]_vars

(***************************************************************************)
(* Claims on the trace correlator, checked under TraceSpec.                *)
(***************************************************************************)
Ended == analyzer.pc \in {"done", "crashed"}

\* trace_count, aggregate_metrics and per_request_metrics are there, and
\* trace_count counts the per-request records
WellFormed(out) ==
    /\ out.kind = "ok"
    /\ out.trace_count = Len(out.per_request_metrics)

\* C18: every run of the correlator ends with a well-formed
\* trace_metrics.json written, the empty result when the timestamps are
\* unavailable or the search returned no traces.
C18_AlwaysWritesOutput ==
    Ended =>
        /\ WellFormed(trace_file)
        /\ (tempo.stamps # "valid" \/ analyzer.summaries = << >>)
              => trace_file = EmptyOutput

\* the traces fetched so far whose detail came back with spans
WithSpans(n) ==
    /\ analyzer.fetched[n].outcome = "ok"
    /\ analyzer.fetched[n].spans # << >>

RecordsOf(n) ==
    {r \in 1..Len(analyzer.per_request) : analyzer.per_request[r].step = n - 1}

\* C19: a failed detail fetch drops that trace only: the pass goes on to
\* every later trace, each trace fetched with span data has exactly one
\* record, and a trace whose fetch failed has none.
C19_FailedFetchDropsThatTraceOnly ==
    /\ Len(analyzer.fetched) = analyzer.i
    /\ analyzer.pc = "done" => analyzer.i = Len(analyzer.summaries)
    /\ \A n \in 1..Len(analyzer.fetched) :
          Cardinality(RecordsOf(n)) = IF WithSpans(n) THEN 1 ELSE 0

C19_Witness ==
    /\ analyzer.pc = "done"
    /\ Len(analyzer.fetched) = 2
    /\ analyzer.fetched[1].outcome = "failed"
    /\ WithSpans(2)
    /\ trace_file.trace_count = 1
    /\ trace_file.per_request_metrics[1].step = 1

SomeMatched(spans) == \E n \in 1..Len(spans) : Matched(spans[n])

\* C20 as claimed: only a trace with at least one matched span has a
\* record in per_request_metrics and counts in trace_count.
C20_AsClaimed ==
    /\ \A r \in 1..Len(analyzer.per_request) :
          SomeMatched(analyzer.fetched[analyzer.per_request[r].step + 1].spans)
    /\ trace_file.kind = "ok" =>
          trace_file.trace_count
            = Cardinality({n \in 1..Len(analyzer.fetched) :
                              SomeMatched(analyzer.fetched[n].spans)})

\* C20 amended: only a trace with at least one span has a record and counts
\* in trace_count; a trace whose spans match no pattern keeps its record,
\* with duration 0 and 0 tool calls.
C20_RecordForEveryTraceWithSpans ==
    /\ \A r \in 1..Len(analyzer.per_request) :
          LET spans == analyzer.fetched[analyzer.per_request[r].step + 1].spans
          IN  /\ spans # << >>
              /\ ~SomeMatched(spans) =>
                    /\ analyzer.per_request[r].request_duration_ms = 0
                    /\ analyzer.per_request[r].tool_call_count = 0
    /\ trace_file.kind = "ok" =>
          trace_file.trace_count
            = Cardinality({n \in 1..Len(analyzer.fetched) : WithSpans(n)})

\* a trace with an unmatched span only, written out as a record of zeros
C20_Witness ==
    /\ analyzer.pc = "done"
    /\ Len(analyzer.fetched) = 2
    /\ WithSpans(1)
    /\ ~SomeMatched(analyzer.fetched[1].spans)
    /\ SomeMatched(analyzer.fetched[2].spans)
    /\ trace_file.trace_count = 2
    /\ trace_file.per_request_metrics[1].request_duration_ms = 0
    /\ trace_file.per_request_metrics[1].tool_calls = 0

(***************************************************************************)
(* Claims on the phase plans of the spike, realistic and custom shapes,    *)
(* checked under Spec.                                                     *)
(***************************************************************************)
SpikeTicked == shape = "spike" /\ Ticked(1)

RealisticTicked == shape = "realistic" /\ Ticked(1)

\* the concurrency of the n-th realistic phase for peak P
PhaseUsers(n, P) ==
    CASE n = 1 -> Max(2, FloorOf(P, 10, 100))
      [] n = 2 -> FloorOf(P, 50, 100)
      [] n = 3 -> P
      [] n = 4 -> FloorOf(P, 30, 100)
      [] n = 5 -> Max(2, FloorOf(P, 5, 100))

\* the cumulative percentage of D at which the n-th phase ends
PhasePercent(n) ==
    CASE n = 0 -> 0 [] n = 1 -> 10 [] n = 2 -> 25 [] n = 3 -> 65 [] n = 4 -> 85
      [] n = 5 -> 100

\* C22 as claimed: the n-th phase lasts from PhasePercent(n-1) per cent of D
\* to PhasePercent(n) per cent of D, with concurrency PhaseUsers(n, P).
C22_AsClaimed ==
    RealisticTicked =>
        \A n \in 1..5 :
            (/\ PhasePercent(n - 1) * env.RUN_TIME_SECONDS <= 100 * elapsed[1]
             /\ 100 * elapsed[1] < PhasePercent(n) * env.RUN_TIME_SECONDS)
                => (decision[1].kind = "run"
                    /\ decision[1].users = PhaseUsers(n, env.USERS))

\* C22 amended: the n-th phase lasts from floor(PhasePercent(n-1) per cent
\* of D) to floor(PhasePercent(n) per cent of D), boundaries cut to whole
\* seconds, with concurrency PhaseUsers(n, P); warm-up and cooldown
\* concurrency are never below 2.
C22_BoundariesCutToWholeSeconds ==
    RealisticTicked =>
        /\ \A n \in 1..5 :
            (/\ FloorOf(env.RUN_TIME_SECONDS, PhasePercent(n - 1), 100) <= elapsed[1]
             /\ elapsed[1] < FloorOf(env.RUN_TIME_SECONDS, PhasePercent(n), 100))
                => (/\ decision[1].kind = "run"
                    /\ decision[1].users = PhaseUsers(n, env.USERS)
                    /\ n \in {1, 5} => decision[1].users >= 2)
        /\ elapsed[1] >= env.RUN_TIME_SECONDS => decision[1] = Stop

\* D = 10: the ramp ends at floor(2.5) = 2, where the peak phase begins
C22_Witness ==
    /\ RealisticTicked
    /\ env.RUN_TIME_SECONDS = 10
    /\ env.USERS >= 2
    /\ elapsed[1] = 2
    /\ decision[1].kind = "run"
    /\ decision[1].users = env.USERS
    /\ PhaseUsers(2, env.USERS) # env.USERS

CustomTicked == shape = "custom" /\ Ticked(1)

\* the entries whose cumulative duration exceeds the elapsed time t
Exceeding(t) == {i \in 1..Len(Items) : Items[i]["duration"] > t}

\* C23: the custom tick returns the users and spawn rate of the first entry,
\* in list order, whose duration exceeds the elapsed time, and STOP when no
\* entry does.
C23_FirstEntryExceedingElapsed ==
    CustomTicked =>
        LET later == Exceeding(elapsed[1])
        IN  IF later = {} THEN decision[1] = Stop
            ELSE LET first == CHOOSE i \in later : \A j \in later : i <= j
                 IN  decision[1] = Run(Items[first]["users"], Items[first]["spawn_rate"])

\* a list out of order: both entries exceed the elapsed time, the first one
\* in the list, which ends later, is taken
C23_Witness ==
    /\ CustomTicked
    /\ Len(Items) = 2
    /\ Items[1]["duration"] > Items[2]["duration"]
    /\ Items[1]["users"] # Items[2]["users"]
    /\ elapsed[1] < Items[2]["duration"]
    /\ decision[1] = Run(Items[1]["users"], Items[1]["spawn_rate"])

\* ceil(a / b) for a > 0, b > 0: the least k with k * b >= a
LeastCovering(a, b) == CHOOSE k \in 1..a : k * b >= a /\ (k - 1) * b < a

\* the ramp rate the claim gives for a spike configuration
ClaimedRampRate(e) ==
    IF e.SPIKE_PEAK_USERS <= e.SPIKE_BASELINE_USERS \/ e.SPIKE_RAMP_DURATION = 0
    THEN e.SPAWN_RATE
    ELSE Max(1, LeastCovering(e.SPIKE_PEAK_USERS - e.SPIKE_BASELINE_USERS,
                              e.SPIKE_RAMP_DURATION))

InRampPhase ==
    /\ SpikeTicked
    /\ env.SPIKE_BASELINE_DURATION <= elapsed[1]
    /\ elapsed[1] < env.SPIKE_BASELINE_DURATION + env.SPIKE_RAMP_DURATION

\* C24: the spike ramp rate is the base rate when peak <= baseline or R = 0,
\* and else max(1, ceil((peak - baseline) / R)); it is the rate returned in
\* the ramp phase.
C24_RampRateOrBaseRate ==
    (shape = "spike" /\ pc[1] = "ready") =>
        /\ self[1].ramp_spawn_rate = ClaimedRampRate(env)
        /\ InRampPhase => decision[1].spawn_rate = ClaimedRampRate(env)

\* 3 users to spawn in 2 seconds: 2 a second, which is not the base rate
C24_Witness ==
    /\ InRampPhase
    /\ env.SPIKE_PEAK_USERS - env.SPIKE_BASELINE_USERS = 3
    /\ env.SPIKE_RAMP_DURATION = 2
    /\ env.SPAWN_RATE = 1
    /\ decision[1].spawn_rate = 2

\* peak below baseline: the ramp phase runs at the base rate
C24_WitnessFallback ==
    /\ InRampPhase
    /\ env.SPIKE_PEAK_USERS < env.SPIKE_BASELINE_USERS
    /\ env.SPAWN_RATE = MaxRate
    /\ decision[1].spawn_rate = MaxRate

\* C25: every decision other than STOP, of any strategy, has a target
\* concurrency >= 0 and a ramp rate > 0, for configurations with
\* non-negative user counts and a positive base rate.
C25_RunDecisionsWellFormed ==
    (Ticked(1) /\ decision[1].kind = "run") =>
        /\ decision[1].users >= 0
        /\ decision[1].spawn_rate > 0

(***************************************************************************)
(* Further claims on the sampler, checked under CollectorSpec.             *)
(***************************************************************************)
\* the buffer after a step starts with the buffer before it
BufferExtended ==
    /\ Len(buffer') >= Len(buffer)
    /\ SubSeq(buffer', 1, Len(buffer)) = buffer

StepsIncrease ==
    \A i \in 1..(Len(buffer) - 1) : buffer[i].second < buffer[i + 1].second

\* C26: the sample buffer is append-only, and its steps are strictly
\* increasing in append order: no test_start, sampler tick or test_stop
\* removes, reorders or rewrites a sample already appended.
C26_AppendOnlyIncreasingSteps == [][BufferExtended]_vars /\ []StepsIncrease

\* two samples with a failed tick between them, a stop completed and a
\* further test_start delivered: the buffer is as the ticks left it
C26_Witness ==
    /\ stopped
    /\ lifecycle = "running"
    /\ Len(buffer) = 2
    /\ buffer[1].second = 0
    /\ buffer[2].second = 2

(***************************************************************************)
(* Further claims on the percentiles, checked under StatsSpec.             *)
(***************************************************************************)
\* C27: for a non-empty input of n values the percentile indices floor(n/2),
\* floor(0.95*n) and floor(0.99*n) lie in 0..n-1, so no percentile indexes
\* past the end of the list; for an empty input no percentile is computed.
C27_IndicesInRange ==
    stats.done =>
        LET n == Len(stats.input)
        IN  IF n = 0
            THEN /\ ~stats.index.has
                 /\ ~stats.metrics_collector.has
                 /\ ~stats.mlflow_hooks.has
            ELSE /\ stats.index.p50 = FloorOf(n, 1, 2)
                 /\ stats.index.p95 = FloorOf(n, 95, 100)
                 /\ stats.index.p99 = FloorOf(n, 99, 100)
                 /\ {stats.index.p50, stats.index.p95, stats.index.p99} \subseteq 0..(n - 1)
                 /\ \A site \in {"metrics_collector", "mlflow_hooks"} :
                       /\ stats[site].has
                       /\ IndexError \notin {stats[site].p50, stats[site].p95,
                                             stats[site].p99}

\* 100 values: the p99 index is 99, the last one
C27_Witness ==
    /\ stats.done
    /\ Len(stats.input) = 100
    /\ stats.index.p99 = 99
    /\ stats.index.p95 = 95
    /\ stats.mlflow_hooks.p99 = SeqMax(stats.input)

\* the number v and the fraction q are the same value
SameValue(v, q) == v * q.den = q.num

\* C28: for one non-empty input the p50 and the p95 of the summary path
\* (metrics_collector, mlflow_hooks) equal the p50 and the p95 of the
\* trace-aggregate path (compute_aggregates with safe_p95).
C28_SamePercentilesAtEverySite ==
    Reported =>
        \A site \in {"metrics_collector", "mlflow_hooks"} :
            /\ SameValue(stats[site].p50, stats.trace_analyzer.p50)
            /\ SameValue(stats[site].p95, stats.trace_analyzer.p95)

(***************************************************************************)
(* Further claims on the trace correlator, checked under TraceSpec.        *)
(***************************************************************************)
\* C29: the search is issued only after the grace-period wait is over, for
\* the window [start - buffer, end + buffer] with buffer 120 seconds unless
\* configured; with the timestamp files missing there is neither a wait nor
\* a search.
C29_WaitThenSearchBufferedWindow ==
    /\ analyzer.query.issued =>
          LET width == IF tempo.argv.given THEN tempo.argv.value ELSE 120
          IN  /\ analyzer.waited
              /\ analyzer.query.start = tempo.start - width
              /\ analyzer.query.end = tempo.end + width
    /\ analyzer.pc \in {"search", "loop"} => analyzer.waited
    /\ tempo.stamps = "missing" => (~analyzer.waited /\ ~analyzer.query.issued)

\* a run with the default buffer that searched [880, 1180] and wrote records
C29_Witness ==
    /\ analyzer.pc = "done"
    /\ ~tempo.argv.given
    /\ analyzer.waited
    /\ analyzer.query = [issued |-> TRUE, start |-> 880, end |-> 1180]
    /\ trace_file.trace_count >= 1

(***************************************************************************)
(* RegisterSpec: the hook modules imported, possibly more than once, into  *)
(* one process, and the events locust fires at the listeners they added.   *)
(* Importing a module runs its body, which ends in _register_listeners().  *)
(***************************************************************************)
MaxLoads == 3       \* each hook module is loaded at most MaxLoads times
MaxFires == 2       \* locust fires at most MaxFires events

InitRegister ==
    /\ SchedIdle /\ FollowIdle /\ CollectorIdle
    /\ ExporterIdle /\ StatsIdle /\ TraceIdle
    /\ RegIdle

\* events.<ev>.add_listener(handler of instance id of module h), for the
\* three events
AddListeners(h, id) ==
    listeners' = [ev \in Events |-> Append(listeners[ev], [hook |-> h, instance |-> id])]

\* _register_listeners without the os.environ guard
RegisterListenersUnguarded(h, id) ==
    /\ registered' = [registered EXCEPT ![h] = id]
    /\ AddListeners(h, id)

\* _register_listeners: return when the module's flag is set in os.environ,
\* else set it and add the three listeners
RegisterListeners(h, id) ==
    IF registered[h] # 0
    THEN UNCHANGED <<registered, listeners>>
    ELSE /\ registered' = [registered EXCEPT ![h] = id]
         /\ AddListeners(h, id)

\* the module body runs: a new module instance, then _register_listeners()
LoadModule(h) ==
    /\ modules[h] < MaxLoads
    /\ modules' = [modules EXCEPT ![h] = @ + 1]
    /\ RegisterListeners(h, modules[h] + 1)
    /\ UNCHANGED <<fired, handled>>
    /\ UNCHANGED nonRegVars

\* locust fires an event: every listener added for it is called, in order
Fire(ev) ==
    /\ fired < MaxFires
    /\ fired' = fired + 1
    /\ handled' = [n \in 1..Len(listeners[ev]) |->
                      [event |-> ev, hook |-> listeners[ev][n].hook,
                       instance |-> listeners[ev][n].instance]]
    /\ UNCHANGED <<modules, registered, listeners>>
    /\ UNCHANGED nonRegVars

NextRegister ==
    \/ \E h \in HookModules : LoadModule(h)
    \/ \E ev \in Events : Fire(ev)

RegisterSpec == InitRegister /\ [][NextRegister]_vars

ListenersOf(h, ev) == {n \in 1..Len(listeners[ev]) : listeners[ev][n].hook = h}

HandledBy(h) == {n \in 1..Len(handled) : handled[n].hook = h}

\* C30: however often a hook module is loaded, its listeners for test_start,
\* request and test_stop are registered exactly once, by the first load, and
\* no event is handled twice by the same hook.
C30_ListenersRegisteredOnce ==
    /\ \A h \in HookModules : \A ev \in Events :
          /\ Cardinality(ListenersOf(h, ev)) = IF modules[h] >= 1 THEN 1 ELSE 0
          /\ \A n \in ListenersOf(h, ev) : listeners[ev][n].instance = 1
    /\ \A h \in HookModules : Cardinality(HandledBy(h)) <= 1

\* both modules loaded more than once, and an event that each handled once
C30_Witness ==
    /\ modules["metrics_collector"] >= 2
    /\ modules["mlflow_hooks"] >= 2
    /\ fired >= 1
    /\ Len(handled) = 2
    /\ \A h \in HookModules : Cardinality(HandledBy(h)) = 1

(***************************************************************************)
(* The sampler's lifetime, checked under CollectorSpec.                    *)
(***************************************************************************)
Alive(g) == samplers[g].pc \notin {"dead", "crashed"}

\* C31: at most one sampler is alive at any time: a test_start delivered
\* while _run_started is set spawns no second sampler, and once a test_stop
\* has completed no sampler is alive.
C31_AtMostOneSamplerAlive ==
    /\ Cardinality({g \in Greenlets : Alive(g)}) <= 1
    /\ Len(samplers) <= 1
    /\ (\E g \in Greenlets : Alive(g)) => (run_started /\ sampling_greenlet # 0)
    /\ (stopped /\ stopPc = "idle") => \A g \in Greenlets : ~Alive(g)

\* a test_start delivered after a completed stop, with _run_started still
\* set: the one sampler there ever was is dead and none was spawned
C31_Witness ==
    /\ stopped
    /\ stopPc = "idle"
    /\ lifecycle = "running"
    /\ run_started
    /\ Len(samplers) = 1
    /\ samplers[1].pc = "dead"
    /\ sampling_greenlet = 0

(***************************************************************************)
(* The shapes over growing elapsed time, checked under Spec.               *)
(***************************************************************************)
\* a tick that follows a tick that returned STOP, at a later elapsed time
LaterTickAfterStop ==
    /\ decision[1] = Stop
    /\ elapsed'[1] > elapsed[1]

\* C32: STOP is absorbing in elapsed time for every strategy: once tick has
\* returned STOP at elapsed e it returns STOP at every later elapsed, in the
\* next tick and at every elapsed up to the horizon.
C32_StopIsAbsorbing ==
    /\ [][LaterTickAfterStop => decision'[1] = Stop]_vars
    /\ [](decision[1] = Stop =>
            \A t \in elapsed[1]..Horizon : ShapeTick(shape, self[1], env, t) = Stop)

\* a second STOP, later than the plan's end, after a plan that did run
C32_Witness ==
    /\ decision[1] = Stop
    /\ calls[1] = 2
    /\ PlanEnd(shape, env) > 0
    /\ elapsed[1] = Horizon
    /\ ShapeTick(shape, self[1], env, 0).kind = "run"
    /\ ShapeTick(shape, self[1], env, Horizon - 1) = Stop

\* the phase index of the running shape at elapsed time t
PhaseAt(t) ==
    IF shape = "spike" THEN SpikeBranch(self[1], t) ELSE RealisticBranch(env, t)

PhaseReturn(n) ==
    IF shape = "spike" THEN SpikeReturn(self[1], n) ELSE RealisticReturn(env, n)

Phased == shape \in {"spike", "realistic"} /\ Ticked(1)

\* the tick just taken returned what its phase returns
PhaseTaken == Phased => decision[1] = PhaseReturn(PhaseAt(elapsed[1]))

\* a tick at a later or equal elapsed time selects no earlier phase
PhaseForward == (Phased /\ Ticked(1)') => PhaseAt(elapsed'[1]) >= PhaseAt(elapsed[1])

\* C33: for spike and realistic with non-negative durations the phase tick
\* selects never moves backwards as elapsed grows, zero-length phases
\* included: from one tick to the next, and second by second up to the
\* horizon; the phase is the one whose values the tick returned.
C33_PhaseNeverMovesBack ==
    /\ [][PhaseForward]_vars
    /\ [](Phased => \A t \in 0..(Horizon - 1) : PhaseAt(t) <= PhaseAt(t + 1))
    /\ []PhaseTaken

\* spike with empty ramp and hold: the tick at the end of the baseline is in
\* the cooldown, the second before was in the baseline
C33_Witness ==
    /\ shape = "spike" /\ Ticked(1) /\ calls[1] = 2
    /\ env.SPIKE_RAMP_DURATION = 0 /\ env.SPIKE_HOLD_DURATION = 0
    /\ env.SPIKE_BASELINE_DURATION > 0 /\ env.SPIKE_COOLDOWN_DURATION > 0
    /\ elapsed[1] = self[1].t_baseline_end
    /\ PhaseAt(elapsed[1]) = 4
    /\ PhaseAt(elapsed[1] - 1) = 1
    /\ decision[1] = Run(self[1].baseline_users, self[1].spawn_rate)

\* C34: realistic with peak >= 1, at any elapsed before STOP: the target
\* concurrency tick returns is at least 1 and at most the peak.
C34_TargetBetweenOneAndPeak ==
    (shape = "realistic" /\ env.USERS >= 1 /\ Ticked(1) /\ decision[1].kind = "run")
        => (1 <= decision[1].users /\ decision[1].users <= env.USERS)

\* the steps of a list of records grow strictly along the list
StrictlyIncreasingSteps(records) ==
    \A n \in 1..(Len(records) - 1) : records[n].step < records[n + 1].step

\* each record's step is the position, counted from 0, of its trace in the
\* search result
StepsAreSearchIndices(records) ==
    \A n \in 1..Len(records) :
        /\ records[n].step \in 0..(Len(analyzer.summaries) - 1)
        /\ analyzer.summaries[records[n].step + 1] = records[n].trace_id
        /\ records[n].trace_id # 0

\* C35: the steps of per_request_metrics are distinct and strictly increasing
\* in list order, in the list the loop builds and in the file written from
\* it; each step is the index of its trace in the search result, so a
\* dropped trace leaves a gap and no step repeats.
C35_StepsStrictlyIncreasing ==
    /\ StrictlyIncreasingSteps(analyzer.per_request)
    /\ StepsAreSearchIndices(analyzer.per_request)
    /\ analyzer.i < Len(analyzer.summaries) =>
            \A n \in 1..Len(analyzer.per_request) : analyzer.per_request[n].step < analyzer.i
    /\ trace_file.kind = "ok" =>
            /\ StrictlyIncreasingSteps(trace_file.per_request_metrics)
            /\ StepsAreSearchIndices(trace_file.per_request_metrics)
            /\ \A n \in 1..Len(trace_file.per_request_metrics) :
                 \A k \in 1..Len(trace_file.per_request_metrics) :
                    n # k => trace_file.per_request_metrics[n].step
                                # trace_file.per_request_metrics[k].step

\* the written file holds two records, numbered 0 and 1
C35_Witness ==
    /\ analyzer.pc = "done"
    /\ trace_file.kind = "ok"
    /\ Len(trace_file.per_request_metrics) = 2
    /\ trace_file.per_request_metrics[1].step = 0
    /\ trace_file.per_request_metrics[2].step = 1

====
